---- MODULE Spec2Model ----
(***************************************************************************)
(* Session state machine, contact heatmap accumulator and grid discretizer *)
(* of the hospital cleaning tracker (backend/app/camera_stream.py), with   *)
(* the control handlers of backend/app/main.py.                            *)
(*                                                                         *)
(* Conventions.  Heat values are counted in steps of 0.02, so 1.0 is       *)
(* HEAT_ONE steps and arithmetic is exact.  Arrays are sequences of rows;  *)
(* numpy index i is sequence index i + 1.  Python None is 0 in integer     *)
(* fields (ids and clock readings start at 1) and <<>> in array fields.    *)
(* Every `with _lock:` block is one atomic action.                         *)
(***************************************************************************)
EXTENDS Integers, Sequences, FiniteSets, TLC

\* ---------------------------------------------------------------- bounds
FrameH == 2
FrameW == 2
GridH == 1
GridW == 2
MaxSessions == 2
MaxClock == 2
MaxRadius == 1
MaxHeat == 1
NumCallers == 2
MaxDim == 3
MaxGrid == 2
MaxMaskH == 7
MaxMaskW == 11
MaxCells == 5
MaxCount == 2
MaxCalls == 2
MaxK == 3
MaxPipeCells == 4
NumIngesters == 2
MaxIds == 2
MaxStored == 3
MaxFrameDim == 11
MaxWipes == 3

\* ------------------------------------------------------ program constants
None == 0
HEAT_ONE == 50
THRESHOLD == 15
MaxNumHands == 2

Max(a, b) == IF a >= b THEN a ELSE b
Min(a, b) == IF a <= b THEN a ELSE b

Callers == 1..NumCallers

\* ------------------------------------------------------------ array helpers
Shape(a) == <<Len(a), IF Len(a) = 0 THEN 0 ELSE Len(a[1])>>

Zeros(h, w) == [y \in 1..h |-> [x \in 1..w |-> 0]]

RECURSIVE SumOver(_, _)
SumOver(S, f) ==
    IF S = {} THEN 0
    ELSE LET e == CHOOSE e \in S : TRUE
         IN f[e] + SumOver(S \ {e}, f)

\* numpy slice bound i on an axis of length n
SliceIdx(i, n) == IF i < 0 THEN Max(0, i + n) ELSE Min(i, n)

\* the 0-based indices selected by a[lo:hi] on an axis of length n
SliceRange(lo, hi, n) == {i \in 0..(n - 1) : SliceIdx(lo, n) <= i /\ i < SliceIdx(hi, n)}

\* int(round(num / den)) for num >= 0, den > 0: Python rounds halves to even
RoundDiv(num, den) ==
    LET q == num \div den
        r == num % den
    IN IF 2 * r < den THEN q
       ELSE IF 2 * r > den THEN q + 1
       ELSE IF q % 2 = 0 THEN q ELSE q + 1

\* ------------------------------------------------------------- rasterizers
\* cv2.rectangle(mask, (x1, y1), (x2, y2), 255, -1): both corners inclusive
InRect(x, y, b) ==
    /\ Min(b[1], b[3]) <= x /\ x <= Max(b[1], b[3])
    /\ Min(b[2], b[4]) <= y /\ y <= Max(b[2], b[4])

RasterMask(h, w, boxes) ==
    [y \in 1..h |-> [x \in 1..w |->
        IF \E i \in 1..Len(boxes) : InRect(x - 1, y - 1, boxes[i]) THEN 255 ELSE 0]]

\* cv2.circle(circle, palm, radius, 255, -1): filled disk around palm = <<x, y>>
InDisk(x, y, palm, radius) ==
    (x - palm[1]) * (x - palm[1]) + (y - palm[2]) * (y - palm[2]) <= radius * radius

BoxArea(b) == (b[3] - b[1]) * (b[4] - b[2])

\* max(table_boxes, key=area): the first box of maximal area
ChosenBox(boxes) ==
    LET i == CHOOSE i \in 1..Len(boxes) :
                 /\ \A j \in 1..Len(boxes) : BoxArea(boxes[j]) <= BoxArea(boxes[i])
                 /\ \A j \in 1..(i - 1) : BoxArea(boxes[j]) < BoxArea(boxes[i])
    IN boxes[i]

\* --------------------------------------------------- heatmap accumulator
\* _update_heatmap without the final np.clip
UpdateHeatmap_NoClip(heat_map, table_mask, palm, radius) ==
    [y \in 1..Len(heat_map) |-> [x \in 1..Len(heat_map[y]) |->
        IF table_mask[y][x] = 255 /\ InDisk(x - 1, y - 1, palm, radius)
        THEN heat_map[y][x] + 1
        ELSE heat_map[y][x]]]

\* _update_heatmap: +0.02 where the disk meets the mask, then clip to [0, 1]
UpdateHeatmap(heat_map, table_mask, palm, radius) ==
    [y \in 1..Len(heat_map) |-> [x \in 1..Len(heat_map[y]) |->
        LET v == IF table_mask[y][x] = 255 /\ InDisk(x - 1, y - 1, palm, radius)
                 THEN heat_map[y][x] + 1
                 ELSE heat_map[y][x]
        IN Min(HEAT_ONE, Max(0, v))]]

PixelsOf(a) == {p \in (1..Len(a)) \X (1..Shape(a)[2]) : TRUE}

\* _compute_coverage, rounded to one decimal: the result in tenths of a percent
ComputeCoverage(heat_map, table_mask) ==
    LET total  == Cardinality({p \in PixelsOf(table_mask) : table_mask[p[1]][p[2]] # 0})
        missed == Cardinality({p \in PixelsOf(table_mask) :
                      heat_map[p[1]][p[2]] < THRESHOLD /\ table_mask[p[1]][p[2]] = 255})
    IN IF total = 0 THEN 0 ELSE RoundDiv(1000 * (total - missed), total)

\* _high_touch_done: at least 60% of the mask's outer band is above THRESHOLD
HighTouchDone(heat_map, table_mask) ==
    IF heat_map = <<>> \/ table_mask = <<>> THEN FALSE
    ELSE
    LET h == Shape(heat_map)[1]
        w == Shape(heat_map)[2]
        margin == Max(1, Min(h, w) \div 8)
        inner(p) == /\ (p[1] - 1) \in SliceRange(margin, 0 - margin, h)
                    /\ (p[2] - 1) \in SliceRange(margin, 0 - margin, w)
        edge == {p \in PixelsOf(table_mask) : table_mask[p[1]][p[2]] = 255 /\ ~inner(p)}
        total == Cardinality(edge)
        covered == Cardinality({p \in edge : heat_map[p[1]][p[2]] >= THRESHOLD})
    IN IF total = 0 THEN FALSE ELSE 10 * covered >= 6 * total

\* ------------------------------------------------------ high-touch mask
\* _make_high_touch_mask
MakeHighTouchMask(surface_type, H, W) ==
    [r \in 1..H |-> [c \in 1..W |->
        IF surface_type = "tray"
        THEN IF (r - 1) \in SliceRange(0, 3, H) \/ (c - 1) \in SliceRange(0, 3, W) THEN 1 ELSE 0
        ELSE IF surface_type = "bedrail"
        THEN IF (c - 1) \in SliceRange(0, 5, W) \/ (c - 1) \in SliceRange(0 - 5, W, W) THEN 1 ELSE 0
        ELSE IF /\ (r - 1) \in SliceRange(H \div 3, (2 * H) \div 3, H)
                /\ (c - 1) \in SliceRange(W \div 3, (2 * W) \div 3, W) THEN 1 ELSE 0]]

\* -------------------------------------------------------- grid discretizer
\* the crop roi = heat_map[y1:y2, x1:x2] after clamping the box to the image:
\* <<first row, row count, first column, column count>>, 0-based
Crop(heat_map, table_box) ==
    LET H == Shape(heat_map)[1]
        W == Shape(heat_map)[2]
        x1 == Max(0, table_box[1])
        y1 == Max(0, table_box[2])
        x2 == Min(W, table_box[3])
        y2 == Min(H, table_box[4])
        rows == SliceRange(y1, y2, H)
        cols == SliceRange(x1, x2, W)
    IN <<SliceIdx(y1, H), Cardinality(rows), SliceIdx(x1, W), Cardinality(cols)>>

\* cell_h = max(1, h // grid_h), and the same for the width
CellSize(n, grid_n) == Max(1, n \div grid_n)

\* the cell bounds without the last row (column) taking the remainder
CellRange_NoRemainder(r, n, grid_n) ==
    SliceRange(r * CellSize(n, grid_n), (r + 1) * CellSize(n, grid_n), n)

\* the 0-based crop rows (columns) of grid row (column) r (0-based): roi[ys:ye]
CellRange(r, n, grid_n) ==
    LET s == r * CellSize(n, grid_n)
        e == IF r < grid_n - 1 THEN (r + 1) * CellSize(n, grid_n) ELSE n
    IN SliceRange(s, e, n)

\* the cell's sum taken for its mean
CellValue_NoMean(sum, cnt) == IF cnt = 0 THEN 0 ELSE RoundDiv(sum, 5)

\* int(round(mean_heat * 10)): the mean of sum/cnt steps of 0.02, times 10
CellValue(sum, cnt) == IF cnt = 0 THEN 0 ELSE RoundDiv(sum, 5 * cnt)

\* _heatmap_to_grid
HeatmapToGrid(heat_map, table_box, grid_h, grid_w) ==
    LET crop == Crop(heat_map, table_box)
        h == crop[2]
        w == crop[4]
    IN IF h * w = 0 THEN Zeros(grid_h, grid_w)
       ELSE [r \in 1..grid_h |-> [c \in 1..grid_w |->
              LET cell == CellRange(r - 1, h, grid_h) \X CellRange(c - 1, w, grid_w)
                  val  == [p \in cell |-> heat_map[crop[1] + p[1] + 1][crop[3] + p[2] + 1]]
              IN CellValue(SumOver(cell, val), Cardinality(cell))]]

\* ------------------------------------------------------------------ state
VARIABLES
    state,          \* the _state dictionary
    arrays,         \* the heat_map arrays allocated so far; a heat_map field holds an index
    preview_boxes,  \* _preview_boxes
    now,            \* the last clock reading
    pc,             \* per control caller: "idle", or where it is inside stop_session
    payload,        \* per control caller: the payload local of stop_session
    ret,            \* the last value a control call returned, with the call's name
    posts,          \* the _post_session threads started so far and how each ended
    f_pc,           \* the frame loop's position in generate_frames
    f_local,        \* the frame loop's locals recording, finished, table_boxes, heat_map, table_mask
    f_hands,        \* how many of this frame's hand landmarks the loop has handled
    args,           \* the arguments of a stand-alone call of a function
    result,         \* and its return value
    db,             \* the committed rows of the tables sessions, session_grids, session_metrics
    ing,            \* per ingest request under way: where it is in ingest_session, and its payload
    tracker         \* the globals of a key-driven tracker script (arthur_camera.py, camera.py)

vars == <<state, arrays, preview_boxes, now, pc, payload, ret, posts,
          f_pc, f_local, f_hands, args, result, db, ing, tracker>>

sessionVars == <<state, arrays, preview_boxes, now, pc, payload, ret, posts,
                 f_pc, f_local, f_hands>>

gridVars == <<args, result>>

storeVars == <<db, ing>>

\* _state as the module initialises it
InitState ==
    [coverage_percent |-> 0, high_touch_done |-> FALSE, recording |-> FALSE,
     finished |-> FALSE, heat_map |-> None, table_mask |-> <<>>, table_boxes |-> <<>>,
     session_id |-> None, start_time_utc |-> None, start_time |-> None]

NoPayload ==
    [session_id |-> None, surface_type |-> "", start_time |-> None, end_time |-> None,
     grid_h |-> 0, grid_w |-> 0, coverage_count_grid |-> <<>>, high_touch_mask |-> <<>>,
     wipe_events |-> <<>>]

\* the frame loop's locals between two frames, when every one of them is dead
NoLocals ==
    [recording |-> FALSE, finished |-> FALSE, table_boxes |-> <<>>,
     heat_map |-> None, table_mask |-> <<>>]

SessionInit ==
    /\ state = InitState
    /\ arrays = <<>>
    /\ preview_boxes = <<>>
    /\ now = 1
    /\ pc = [t \in Callers |-> "idle"]
    /\ payload = [t \in Callers |-> NoPayload]
    /\ ret = "none"
    /\ posts = <<>>
    /\ f_pc = "snap"
    /\ f_local = NoLocals
    /\ f_hands = 0

NoArgs == [heat_map |-> <<>>, table_box |-> <<0, 0, 0, 0>>, grid_h |-> 0, grid_w |-> 0]

GridIdle == args = NoArgs /\ result = <<>>

Ingesters == 1..NumIngesters

NoIngest == [pc |-> "idle", payload |-> <<>>]

\* no tracker script is running
NoTracker ==
    [variant |-> "", running |-> FALSE, key |-> "", recording |-> FALSE, finished |-> FALSE,
     table_boxes |-> <<>>, preview_boxes |-> <<>>, table_mask |-> <<>>, heat_map |-> <<>>,
     session_id |-> None, start_time_utc |-> None, clock |-> 1, started |-> 0, sent |-> <<>>]

TrackerIdle == tracker = NoTracker

\* empty tables, no request under way
StoreInit ==
    /\ db = [sessions |-> {}, session_grids |-> {}, session_metrics |-> {}]
    /\ ing = [w \in Ingesters |-> NoIngest]

\* ------------------------------------------------------------------ inputs
\* stage 4 of _detect_surface on a FrameW x FrameH frame
FallbackBox == <<FrameW \div 10, FrameH \div 10, FrameW - FrameW \div 10, FrameH - FrameH \div 10>>

\* two detected boxes over the last column of the frame, the smaller one first
CornerBox == <<FrameW - 1, 0, FrameW, 1>>

RightBox == <<FrameW - 1, 0, FrameW, FrameH>>

\* what _detect_surface may return: never an empty list
DetectOutputs == {<<CornerBox, RightBox>>}

\* the box lists a caller may hand to start_session
BoxInputs == {<<>>} \cup DetectOutputs

\* palm positions <<x, y>> and radii the landmark tracker may report
Palms == {<<FrameW - 1, 0>>}

Radii == 0..MaxRadius

\* a clock that does not run backwards
ClockReadings == now..MaxClock

\* ------------------------------------------------------- start_session
SURFACE_TYPE == "tray"

\* start_session without its test of the recording flag
StartRejected_IgnoresRecording(st, boxes) == boxes = <<>>

\* start_session made to wait for the deliveries still in flight
StartRejected_WaitsForDelivery(st, boxes) ==
    \/ st.recording
    \/ boxes = <<>>
    \/ \E i \in 1..Len(posts) : posts[i].status = "started"

\* the rejection test of start_session
StartRejected(st, boxes) == st.recording \/ boxes = <<>>

\* the fields start_session assigns; heat_map is the index of the fresh zero array
StartedState(st, frame_shape, boxes, id, t) ==
    [st EXCEPT !.table_boxes = boxes,
               !.table_mask = RasterMask(frame_shape[1], frame_shape[2], boxes),
               !.heat_map = id,
               !.recording = TRUE,
               !.finished = FALSE,
               !.session_id = id,
               !.start_time_utc = t,
               !.start_time = t,
               !.coverage_percent = 0,
               !.high_touch_done = FALSE]

StartSession(c, frame_shape, boxes) ==
    /\ pc[c] = "idle"
    /\ IF StartRejected(state, boxes)
       THEN /\ ret' = "start_false"
            /\ UNCHANGED <<state, arrays, now>>
       ELSE /\ Len(arrays) < MaxSessions
            /\ \E t \in ClockReadings :
                 /\ now' = t
                 /\ state' = StartedState(state, frame_shape, boxes, Len(arrays) + 1, t)
            /\ arrays' = Append(arrays, Zeros(frame_shape[1], frame_shape[2]))
            /\ ret' = "start_true"
    /\ UNCHANGED <<preview_boxes, pc, payload, posts, f_pc, f_local, f_hands, gridVars, storeVars, tracker>>

\* a direct call of start_session with any box list
StartSessionCall(c) == \E boxes \in BoxInputs : StartSession(c, <<FrameH, FrameW>>, boxes)

\* POST /camera/start
CameraStart(c) ==
    IF preview_boxes = <<>>
    THEN /\ pc[c] = "idle"
         /\ ret' = "start_false"
         /\ UNCHANGED <<state, arrays, now, preview_boxes, pc, payload, posts,
                        f_pc, f_local, f_hands, gridVars, storeVars, tracker>>
    ELSE StartSession(c, <<FrameH, FrameW>>, preview_boxes)

\* -------------------------------------------------------- stop_session
\* the first locked block forgetting to clear the recording flag
FinishedState_KeepsRecording(st) == [st EXCEPT !.finished = TRUE]

\* the first locked block's writes
FinishedState(st) == [st EXCEPT !.recording = FALSE, !.finished = TRUE]

\* the payload with the high-touch mask built for grid_w x grid_h
BuildPayload_MaskTransposed(st, heat, end_time) ==
    [session_id |-> st.session_id,
     surface_type |-> SURFACE_TYPE,
     start_time |-> st.start_time_utc,
     end_time |-> end_time,
     grid_h |-> GridH,
     grid_w |-> GridW,
     coverage_count_grid |-> HeatmapToGrid(heat, ChosenBox(st.table_boxes), GridH, GridW),
     high_touch_mask |-> MakeHighTouchMask(SURFACE_TYPE, GridW, GridH),
     wipe_events |-> <<>>]

\* the payload stop_session assembles in its first locked block
BuildPayload(st, heat, end_time) ==
    [session_id |-> st.session_id,
     surface_type |-> SURFACE_TYPE,
     start_time |-> st.start_time_utc,
     end_time |-> end_time,
     grid_h |-> GridH,
     grid_w |-> GridW,
     coverage_count_grid |-> HeatmapToGrid(heat, ChosenBox(st.table_boxes), GridH, GridW),
     high_touch_mask |-> MakeHighTouchMask(SURFACE_TYPE, GridH, GridW),
     wipe_events |-> <<>>]

\* the second locked block clearing the flags and the identity only
ResetState_KeepsSession(st) ==
    [st EXCEPT !.finished = FALSE,
               !.recording = FALSE,
               !.coverage_percent = 0,
               !.high_touch_done = FALSE,
               !.session_id = None,
               !.start_time_utc = None,
               !.start_time = None]

\* the second locked block's writes
ResetState(st) ==
    [st EXCEPT !.finished = FALSE,
               !.recording = FALSE,
               !.table_boxes = <<>>,
               !.table_mask = <<>>,
               !.heat_map = None,
               !.coverage_percent = 0,
               !.high_touch_done = FALSE,
               !.session_id = None,
               !.start_time_utc = None,
               !.start_time = None]

\* stop_session testing the session id instead of the recording flag
StopRejected_ChecksSessionId(st) == st.session_id = None

\* the rejection test of stop_session
StopRejected(st) == ~st.recording

\* lines 84-118: the first locked block
StopFinalize(c) ==
    /\ pc[c] = "idle"
    /\ IF StopRejected(state)
       THEN /\ ret' = "stop_false"
            /\ UNCHANGED <<state, now, pc, payload>>
       ELSE /\ \E t \in ClockReadings :
                 /\ now' = t
                 /\ payload' = [payload EXCEPT ![c] =
                                  BuildPayload(state, arrays[state.heat_map], t)]
            /\ state' = FinishedState(state)
            /\ pc' = [pc EXCEPT ![c] = "spawn"]
            /\ UNCHANGED ret
    /\ UNCHANGED <<arrays, preview_boxes, posts, f_pc, f_local, f_hands, gridVars, storeVars, tracker>>

\* line 120: the delivery thread is started with the payload, which the caller
\* does not use again
StopSpawn(c) ==
    /\ pc[c] = "spawn"
    /\ posts' = Append(posts, [payload |-> payload[c], status |-> "started", attempts |-> 0])
    /\ pc' = [pc EXCEPT ![c] = "reset"]
    /\ payload' = [payload EXCEPT ![c] = NoPayload]
    /\ UNCHANGED <<state, arrays, preview_boxes, now, ret, f_pc, f_local, f_hands, gridVars, storeVars, tracker>>

\* lines 123-135: the second locked block and the return
StopReset(c) ==
    /\ pc[c] = "reset"
    /\ state' = ResetState(state)
    /\ pc' = [pc EXCEPT ![c] = "idle"]
    /\ ret' = "stop_true"
    /\ UNCHANGED <<arrays, preview_boxes, now, payload, posts, f_pc, f_local, f_hands,
                   gridVars, storeVars, tracker>>

\* ------------------------------------------------------- _post_session
\* how one requests.post can end: a response (logged), or an exception (logged)
PostOutcomes == {"answered", "failed"}

\* the delivery reading the session id from the shared state when it posts
PostResult_ReadsState(post, outcome) ==
    [post EXCEPT !.status = outcome, !.attempts = @ + 1,
                 !.payload = [@ EXCEPT !.session_id = state.session_id]]

\* the status of a delivery after its single request
PostResult(post, outcome) == [post EXCEPT !.status = outcome, !.attempts = @ + 1]

PostSession(i) ==
    /\ i \in 1..Len(posts)
    /\ posts[i].status = "started"
    /\ \E outcome \in PostOutcomes : posts' = [posts EXCEPT ![i] = PostResult(@, outcome)]
    /\ UNCHANGED <<state, arrays, preview_boxes, now, pc, payload, ret, f_pc, f_local,
                   f_hands, gridVars, storeVars, tracker>>

\* ------------------------------------------------------ generate_frames
\* lines 306-311: the snapshot taken under the lock
FrameSnap ==
    /\ f_pc = "snap"
    /\ f_local' = [recording |-> state.recording, finished |-> state.finished,
                   table_boxes |-> state.table_boxes, heat_map |-> state.heat_map,
                   table_mask |-> state.table_mask]
    /\ f_hands' = 0
    /\ f_pc' = "detect"
    /\ UNCHANGED <<state, arrays, preview_boxes, now, pc, payload, ret, posts, gridVars, storeVars, tracker>>

\* lines 314-324: the preview boxes are refreshed while nothing is recorded
FrameDetect ==
    /\ f_pc = "detect"
    /\ IF ~f_local.recording /\ f_local.table_boxes = <<>>
       THEN \E detected \in DetectOutputs : preview_boxes' = detected
       ELSE UNCHANGED preview_boxes
    /\ f_pc' = "hands"
    /\ UNCHANGED <<state, arrays, now, pc, payload, ret, posts, f_local, f_hands, gridVars, storeVars, tracker>>

\* the test of line 335, on the snapshot
UpdateWanted(local) == local.recording /\ local.table_mask # <<>>

\* no pixel of the array has reached cap steps
HeatBelow(heat, cap) == \A p \in PixelsOf(heat) : heat[p[1]][p[2]] < cap

\* lines 328-337: one hand landmark of the frame that passes the test of line 335
\* (the others only draw).  The update reads _state again under the lock; on a
\* heat_map of None numpy and cv2 raise and the generator ends.
FrameHand(cap) ==
    /\ f_pc = "hands"
    /\ f_hands < MaxNumHands
    /\ \E palm \in Palms, radius \in Radii :
         /\ UpdateWanted(f_local)
         /\ IF state.heat_map = None \/ state.table_mask = <<>>
            THEN /\ f_pc' = "crashed"
                 /\ f_local' = NoLocals
                 /\ f_hands' = 0
                 /\ UNCHANGED arrays
            ELSE /\ HeatBelow(arrays[state.heat_map], cap)
                 /\ arrays' = [arrays EXCEPT ![state.heat_map] =
                                 UpdateHeatmap(@, state.table_mask, palm, radius)]
                 /\ f_hands' = f_hands + 1
                 /\ UNCHANGED <<f_pc, f_local>>
    /\ UNCHANGED <<state, preview_boxes, now, pc, payload, ret, posts, gridVars, storeVars, tracker>>

\* lines 340-344: the second read under the lock and the branch on it
FrameReread ==
    /\ f_pc = "hands"
    /\ IF f_local.recording /\ state.heat_map # None
       THEN /\ f_local' = [f_local EXCEPT !.heat_map = state.heat_map,
                                          !.table_mask = state.table_mask]
            /\ f_pc' = "writecov"
       ELSE /\ f_local' = NoLocals
            /\ f_pc' = "snap"
    /\ f_hands' = 0
    /\ UNCHANGED <<state, arrays, preview_boxes, now, pc, payload, ret, posts, gridVars, storeVars, tracker>>

\* lines 345-352: the live signals, computed from the locals, written under the lock
FrameWriteCov ==
    /\ f_pc = "writecov"
    /\ state' = [state EXCEPT
                   !.coverage_percent =
                       ComputeCoverage(arrays[f_local.heat_map], f_local.table_mask),
                   !.high_touch_done =
                       HighTouchDone(arrays[f_local.heat_map], f_local.table_mask)]
    /\ f_pc' = "snap"
    /\ f_local' = NoLocals
    /\ UNCHANGED <<arrays, preview_boxes, now, pc, payload, ret, posts, f_hands, gridVars, storeVars, tracker>>

\* GET /video_feed: a new request runs generate_frames again
VideoFeed ==
    /\ f_pc = "crashed"
    /\ f_pc' = "snap"
    /\ UNCHANGED <<state, arrays, preview_boxes, now, pc, payload, ret, posts, f_local,
                   f_hands, gridVars, storeVars, tracker>>

\* --------------------------------------------------------- specifications
Init == SessionInit /\ GridIdle /\ StoreInit /\ TrackerIdle

Control(c) ==
    \/ StartSessionCall(c)
    \/ CameraStart(c)
    \/ StopFinalize(c)
    \/ StopSpawn(c)
    \/ StopReset(c)

Delivery == \E i \in 1..MaxSessions : PostSession(i)

Frames(cap) ==
    \/ FrameSnap
    \/ FrameDetect
    \/ FrameHand(cap)
    \/ FrameReread
    \/ FrameWriteCov
    \/ VideoFeed

\* any number of control callers, the delivery threads and the frame loop
Next ==
    \/ \E c \in Callers : Control(c)
    \/ Delivery
    \/ Frames(MaxHeat)

Spec == Init /\ [][Next]_vars

\* one control caller issuing its calls one after another
NextSingle ==
    \/ Control(1)
    \/ Delivery
    \/ Frames(MaxHeat)

SpecSingle == Init /\ [][NextSingle]_vars

\* one session that is started and never stopped, its heatmap free to saturate
NextHeat ==
    \/ StartSessionCall(1)
    \/ FrameSnap
    \/ FrameDetect
    \/ FrameHand(HEAT_ONE + 1)
    \/ FrameReread
    \/ FrameWriteCov

SpecHeat == Init /\ [][NextHeat]_vars

\* the control callers' starts and stops and the frame loop, a session's
\* pixels wiped up to MaxWipes times, the deliveries left out
NextWipe ==
    \/ \E c \in Callers :
          StartSessionCall(c) \/ StopFinalize(c) \/ StopSpawn(c) \/ StopReset(c)
    \/ Frames(MaxWipes)

SpecWipe == Init /\ [][NextWipe]_vars

\* one control caller issuing its calls one after another, the delivery
\* threads and the frame loop, a session's pixels wiped up to MaxWipes times
NextDeliver ==
    \/ Control(1)
    \/ Delivery
    \/ Frames(MaxWipes)

SpecDeliver == Init /\ [][NextDeliver]_vars

\* one control caller starting and stopping the first session and the frame
\* loop, the session's pixels wiped until they reach THRESHOLD, where the live
\* coverage counts them as covered
FirstStart == arrays = <<>> /\ StartSessionCall(1)

NextLive ==
    \/ FirstStart
    \/ StopFinalize(1)
    \/ StopSpawn(1)
    \/ StopReset(1)
    \/ Frames(THRESHOLD)

SpecLive == Init /\ [][NextLive]_vars

\* ------------------------------------------ _heatmap_to_grid on its own
\* heatmaps of every shape up to MaxDim x MaxDim with values in [0, 1]:
\* flat ones at 0, 0.5 and 1, and ones with a single saturated pixel
HeatMaps ==
    UNION {
        {[y \in 1..h |-> [x \in 1..w |-> v]] : v \in {0, HEAT_ONE \div 2, HEAT_ONE}}
        \cup
        {[y \in 1..h |-> [x \in 1..w |-> IF <<y, x>> = p THEN HEAT_ONE ELSE 0]] :
            p \in (1..h) \X (1..w)}
        : <<h, w>> \in (1..MaxDim) \X (1..MaxDim)}

\* boxes that start left of / above, at, or inside the image and end anywhere
\* from before the image to beyond it (also before their own start)
Boxes ==
    {<<x1, y1, x2, y2>> : x1 \in (0 - 1)..1, y1 \in (0 - 1)..1,
                          x2 \in (0 - 1)..(MaxDim + 1), y2 \in (0 - 1)..(MaxDim + 1)}

GridInit ==
    /\ SessionInit
    /\ TrackerIdle
    /\ StoreInit
    /\ args \in [heat_map : HeatMaps, table_box : Boxes,
                 grid_h : 1..MaxGrid, grid_w : 1..MaxGrid]
    /\ result = <<>>

Discretize ==
    /\ result = <<>>
    /\ result' = HeatmapToGrid(args.heat_map, args.table_box, args.grid_h, args.grid_w)
    /\ UNCHANGED <<args, sessionVars, storeVars, tracker>>

SpecGrid == GridInit /\ [][Discretize]_vars

\* ------------------------------------------- the high-touch mask's copies
\* SURFACE_PROFILES of scripts/generate_demo_sessions.py: the high_touch mode
DemoHighTouchMode(surface_type) ==
    CASE surface_type = "tray" -> "tray_edges"
      [] surface_type = "bedrail" -> "bedrail_ends"
      [] surface_type = "handle" -> "handle_center"

\* the tray pattern for every surface type
DemoMakeHighTouchMask_TrayOnly(surface_type, H, W) == MakeHighTouchMask("tray", H, W)

\* make_high_touch_mask of scripts/generate_demo_sessions.py
DemoMakeHighTouchMask(surface_type, H, W) ==
    LET mode == DemoHighTouchMode(surface_type)
    IN [r \in 1..H |-> [c \in 1..W |->
          IF mode = "tray_edges"
          THEN IF (r - 1) \in SliceRange(0, 3, H) \/ (c - 1) \in SliceRange(0, 3, W) THEN 1 ELSE 0
          ELSE IF mode = "bedrail_ends"
          THEN IF (c - 1) \in SliceRange(0, 5, W) \/ (c - 1) \in SliceRange(0 - 5, W, W) THEN 1 ELSE 0
          ELSE IF /\ mode = "handle_center"
                  /\ (r - 1) \in SliceRange(H \div 3, (2 * H) \div 3, H)
                  /\ (c - 1) \in SliceRange(W \div 3, (2 * W) \div 3, W) THEN 1 ELSE 0]]

\* make_high_touch_mask of camera/arthur_camera.py
ArthurMakeHighTouchMask(surface_type, H, W) ==
    [r \in 1..H |-> [c \in 1..W |->
        IF surface_type = "tray"
        THEN IF (r - 1) \in SliceRange(0, 3, H) \/ (c - 1) \in SliceRange(0, 3, W) THEN 1 ELSE 0
        ELSE IF surface_type = "bedrail"
        THEN IF (c - 1) \in SliceRange(0, 5, W) \/ (c - 1) \in SliceRange(0 - 5, W, W) THEN 1 ELSE 0
        ELSE IF /\ (r - 1) \in SliceRange(H \div 3, (2 * H) \div 3, H)
                /\ (c - 1) \in SliceRange(W \div 3, (2 * W) \div 3, W) THEN 1 ELSE 0]]

\* make_high_touch_mask of camera/collect_session.py, whose SURFACE_TYPE is "tray"
CollectMakeHighTouchMask(grid_h, grid_w) ==
    [r \in 1..grid_h |-> [c \in 1..grid_w |->
        IF (r - 1) \in SliceRange(0, 3, grid_h) \/ (c - 1) \in SliceRange(0, 3, grid_w)
        THEN 1 ELSE 0]]

\* the keys of SURFACE_PROFILES
SurfaceTypes == {"tray", "bedrail", "handle"}

MaskCopies == {"camera_stream", "generate_demo_sessions", "arthur_camera", "collect_session"}

\* one call of one copy of the generator: collect_session's takes no surface
\* type and serves the tray only
MaskInit ==
    /\ SessionInit
    /\ TrackerIdle
    /\ StoreInit
    /\ args \in {a \in [copy : MaskCopies, surface_type : SurfaceTypes,
                        H : 1..MaxMaskH, W : 1..MaxMaskW] :
                    a.copy = "collect_session" => a.surface_type = "tray"}
    /\ result = <<>>

CallMakeHighTouchMask ==
    /\ result = <<>>
    /\ args.copy = "camera_stream"
    /\ result' = <<MakeHighTouchMask(args.surface_type, args.H, args.W)>>
    /\ UNCHANGED <<args, sessionVars, storeVars, tracker>>

CallDemoMakeHighTouchMask ==
    /\ result = <<>>
    /\ args.copy = "generate_demo_sessions"
    /\ result' = <<DemoMakeHighTouchMask(args.surface_type, args.H, args.W)>>
    /\ UNCHANGED <<args, sessionVars, storeVars, tracker>>

CallArthurMakeHighTouchMask ==
    /\ result = <<>>
    /\ args.copy = "arthur_camera"
    /\ result' = <<ArthurMakeHighTouchMask(args.surface_type, args.H, args.W)>>
    /\ UNCHANGED <<args, sessionVars, storeVars, tracker>>

CallCollectMakeHighTouchMask ==
    /\ result = <<>>
    /\ args.copy = "collect_session"
    /\ result' = <<CollectMakeHighTouchMask(args.H, args.W)>>
    /\ UNCHANGED <<args, sessionVars, storeVars, tracker>>

NextMask ==
    \/ CallMakeHighTouchMask
    \/ CallDemoMakeHighTouchMask
    \/ CallArthurMakeHighTouchMask
    \/ CallCollectMakeHighTouchMask

SpecMask == MaskInit /\ [][NextMask]_vars

\* ------------------------------------------------- grids, masks, sessions
\* the shapes of at most MaxCells cells
Shapes == {s \in (1..MaxCells) \X (1..MaxCells) : s[1] * s[2] <= MaxCells}

\* the coverage-count grids of a shape, counts up to MaxCount
CountGrids(h, w) == [1..h -> [1..w -> 0..MaxCount]]

\* the 0/1 masks of a shape
Masks(h, w) == [1..h -> [1..w -> {0, 1}]]

\* the cells of an h x w grid in row-major order, 0-based <<r, c>>
RowMajor(h, w) == [i \in 1..(h * w) |-> <<(i - 1) \div w, (i - 1) % w>>]

\* ------------------------------------------------------------ risk levels
RISK_ORDER == <<"critical", "high", "medium", "low", "clear">>

\* risk_level with the test for high-touch, covered twice or more, left out
RiskLevel_NoLow(coverage, high_touch) ==
    IF high_touch /\ coverage = 0 THEN "critical"
    ELSE IF high_touch /\ coverage = 1 THEN "high"
    ELSE IF ~high_touch /\ coverage = 0 THEN "medium"
    ELSE "clear"

\* risk_level
RiskLevel(coverage, high_touch) ==
    IF high_touch /\ coverage = 0 THEN "critical"
    ELSE IF high_touch /\ coverage = 1 THEN "high"
    ELSE IF ~high_touch /\ coverage = 0 THEN "medium"
    ELSE IF high_touch /\ coverage >= 2 THEN "low"
    ELSE "clear"

\* analyze_session, without the duration string and the focus list
AnalyzeSession(s) ==
    LET cells == [i \in 1..(s.grid_h * s.grid_w) |->
                    LET r == RowMajor(s.grid_h, s.grid_w)[i][1]
                        c == RowMajor(s.grid_h, s.grid_w)[i][2]
                        cov == s.coverage_count_grid[r + 1][c + 1]
                        ht == s.high_touch_mask[r + 1][c + 1] = 1
                    IN [r |-> r, c |-> c, coverage |-> cov, highTouch |-> ht,
                        risk |-> RiskLevel(cov, ht)]]
        total_cells == s.grid_h * s.grid_w
        cleaned == Cardinality({i \in DOMAIN cells : cells[i].coverage > 0})
    IN [cells |-> cells,
        totalCells |-> total_cells,
        cleaned |-> cleaned,
        covPct |-> RoundDiv(cleaned * 100, total_cells),
        htTotal |-> Cardinality({i \in DOMAIN cells : cells[i].highTouch}),
        htUncleaned |-> Cardinality({i \in DOMAIN cells :
                                        cells[i].highTouch /\ cells[i].coverage = 0}),
        counts |-> [k \in {RISK_ORDER[j] : j \in DOMAIN RISK_ORDER} |->
                      Cardinality({i \in DOMAIN cells : cells[i].risk = k})]]

\* the sessions handed to analyze_session: a grid and a mask of the session's shape
RiskInit ==
    /\ SessionInit
    /\ TrackerIdle
    /\ StoreInit
    /\ args \in UNION {[grid_h : {s[1]}, grid_w : {s[2]},
                        coverage_count_grid : CountGrids(s[1], s[2]),
                        high_touch_mask : Masks(s[1], s[2])] : s \in Shapes}
    /\ result = <<>>

CallAnalyzeSession ==
    /\ result = <<>>
    /\ result' = <<AnalyzeSession(args)>>
    /\ UNCHANGED <<args, sessionVars, storeVars, tracker>>

SpecRisk == RiskInit /\ [][CallAnalyzeSession]_vars

\* ---------------------------------------------------------------- metrics
\* a float that is a ratio of two integers, kept exact: <<numerator, denominator>>
FracEq(a, b) == a[1] * b[2] = b[1] * a[2]
FracLess(a, b) == a[1] * b[2] < b[1] * a[2]

\* (G > 0).astype(float)
Covered(grid) == [r \in DOMAIN grid |-> [c \in DOMAIN grid[r] |-> IF grid[r][c] > 0 THEN 1 ELSE 0]]

\* the sum of all entries of a matrix
MatrixSum(a) == SumOver(PixelsOf(a), [p \in PixelsOf(a) |-> a[p[1]][p[2]]])

\* compute_coverage_percent over the cells of the first row only
ComputeCoveragePercent_FirstRow(coverage_count_grid) ==
    <<100 * MatrixSum(<<Covered(coverage_count_grid)[1]>>), Len(coverage_count_grid[1])>>

\* compute_coverage_percent: C.mean() * 100.0
ComputeCoveragePercent(coverage_count_grid) ==
    LET C == Covered(coverage_count_grid)
    IN <<100 * MatrixSum(C), Cardinality(PixelsOf(C))>>

\* compute_high_touch_coverage_percent that divides by the number of cells
ComputeHighTouchCoveragePercent_OverAllCells(coverage_count_grid, high_touch_mask) ==
    IF high_touch_mask = <<>> THEN <<>>
    ELSE LET C == Covered(coverage_count_grid)
             CM == [r \in DOMAIN C |-> [c \in DOMAIN C[r] |-> C[r][c] * high_touch_mask[r][c]]]
         IN <<100 * MatrixSum(CM), Cardinality(PixelsOf(C))>>

\* compute_high_touch_coverage_percent; None is <<>>
ComputeHighTouchCoveragePercent(coverage_count_grid, high_touch_mask) ==
    IF high_touch_mask = <<>> THEN <<>>
    ELSE LET C == Covered(coverage_count_grid)
             denom == MatrixSum(high_touch_mask)
             CM == [r \in DOMAIN C |-> [c \in DOMAIN C[r] |-> C[r][c] * high_touch_mask[r][c]]]
         IN IF denom <= 0 THEN <<>> ELSE <<100 * MatrixSum(CM), denom>>

\* one call of a metric on a grid (and a mask of its shape, or none); result
\* collects what the calls return
MetricsInit ==
    /\ SessionInit
    /\ TrackerIdle
    /\ StoreInit
    /\ args \in UNION {
          [fn : {"compute_coverage_percent"},
           coverage_count_grid : CountGrids(s[1], s[2]), high_touch_mask : {<<>>}]
          \cup
          [fn : {"compute_high_touch_coverage_percent"},
           coverage_count_grid : CountGrids(s[1], s[2]),
           high_touch_mask : Masks(s[1], s[2]) \cup {<<>>}] : s \in Shapes}
    /\ result = <<>>

CallComputeCoveragePercent ==
    /\ result = <<>>
    /\ args.fn = "compute_coverage_percent"
    /\ result' = <<ComputeCoveragePercent(args.coverage_count_grid)>>
    /\ UNCHANGED <<args, sessionVars, storeVars, tracker>>

\* a further call on the grid with one of its zero cells made positive
CallComputeCoveragePercentAgain ==
    /\ result # <<>>
    /\ args.fn = "compute_coverage_percent"
    /\ \E p \in PixelsOf(args.coverage_count_grid), v \in 1..MaxCount :
          /\ args.coverage_count_grid[p[1]][p[2]] = 0
          /\ args' = [args EXCEPT !.coverage_count_grid[p[1]][p[2]] = v]
    /\ result' = Append(result, ComputeCoveragePercent(args'.coverage_count_grid))
    /\ UNCHANGED <<sessionVars, storeVars, tracker>>

CallComputeHighTouchCoveragePercent ==
    /\ result = <<>>
    /\ args.fn = "compute_high_touch_coverage_percent"
    /\ result' = <<ComputeHighTouchCoveragePercent(args.coverage_count_grid,
                                                   args.high_touch_mask)>>
    /\ UNCHANGED <<args, sessionVars, storeVars, tracker>>

NextMetrics ==
    \/ CallComputeCoveragePercent
    \/ CallComputeCoveragePercentAgain
    \/ CallComputeHighTouchCoveragePercent

SpecMetrics == MetricsInit /\ [][NextMetrics]_vars

\* ---------------------------------------------------------------- scoring
\* arithmetic on exact ratios <<numerator, denominator>>, denominator > 0
Abs(n) == IF n < 0 THEN 0 - n ELSE n

RECURSIVE GCD(_, _)
GCD(a, b) == IF b = 0 THEN a ELSE GCD(b, a % b)

FracNorm(a) ==
    LET g == GCD(Abs(a[1]), a[2])
    IN IF a[1] < 0 THEN <<0 - (Abs(a[1]) \div g), a[2] \div g>> ELSE <<a[1] \div g, a[2] \div g>>

Frac(n) == <<n, 1>>
FracAdd(a, b) == FracNorm(<<a[1] * b[2] + b[1] * a[2], a[2] * b[2]>>)
FracSub(a, b) == FracNorm(<<a[1] * b[2] - b[1] * a[2], a[2] * b[2]>>)
\* a * k / d
FracTimes(a, k, d) == FracNorm(<<a[1] * k, a[2] * d>>)
FracMax(a, b) == IF FracLess(a, b) THEN b ELSE a
FracMin(a, b) == IF FracLess(b, a) THEN b ELSE a

\* clamp
Clamp(x, lo, hi) == FracMax(lo, FracMin(hi, x))

\* compute_quality_score without the final clamp to [0, 100]
ScoreOf_Unclamped(raw, rushing_penalty) == FracSub(raw, rushing_penalty)

\* max(0.0, min(100.0, raw - rushing_penalty))
ScoreOf(raw, rushing_penalty) ==
    FracMax(Frac(0), FracMin(Frac(100), FracSub(raw, rushing_penalty)))

\* the rushing test with the coverage condition left out
Rushing_DurationOnly(coverage_percent, duration_s) == duration_s < 30

\* duration_s < 30 and coverage_percent < 70
Rushing(coverage_percent, duration_s) ==
    duration_s < 30 /\ FracLess(coverage_percent, Frac(70))

\* compute_quality_score: <<quality, flags>> as a record; None is <<>>
ComputeQualityScore(coverage_percent, high_touch_coverage_percent, overwipe_ratio, uniformity_std, duration_s) ==
    LET coverage_score == Clamp(FracTimes(coverage_percent, 1, 100), Frac(0), Frac(1))
        high_touch_score ==
            IF high_touch_coverage_percent = <<>> THEN coverage_score
            ELSE Clamp(FracTimes(high_touch_coverage_percent, 1, 100), Frac(0), Frac(1))
        overwipe_score == Clamp(FracSub(Frac(1), FracTimes(overwipe_ratio, 5, 1)), Frac(0), Frac(1))
        uniformity_score == Clamp(FracSub(Frac(1), FracTimes(uniformity_std, 1, 5)), Frac(0), Frac(1))
        rushed == Rushing(coverage_percent, duration_s)
        rushing_penalty == IF rushed THEN Frac(15) ELSE Frac(0)
        raw == FracAdd(FracAdd(FracTimes(coverage_score, 35, 1), FracTimes(high_touch_score, 35, 1)),
                       FracAdd(FracTimes(overwipe_score, 15, 1), FracTimes(uniformity_score, 15, 1)))
        flags ==
            (IF high_touch_coverage_percent = <<>> THEN <<"no_high_touch_mask">> ELSE <<>>)
            \o (IF rushed THEN <<"rushed">> ELSE <<>>)
            \o (IF high_touch_coverage_percent # <<>>
                   /\ FracLess(high_touch_coverage_percent, Frac(70))
                THEN <<"missed_high_touch">> ELSE <<>>)
            \o (IF FracLess(<<1, 10>>, overwipe_ratio) THEN <<"overwiping">> ELSE <<>>)
    IN [quality |-> ScoreOf(raw, rushing_penalty), flags |-> flags]

\* the inputs of a call: percentages in [0, 100] around the 70 of the rushing
\* and missed-high-touch tests, ratios in [0, 1] around 0.10 and 0.20,
\* deviations around 5, durations around 30 s
PercentInputs == {Frac(0), Frac(10), Frac(69), <<139, 2>>, Frac(70), Frac(100)}
RatioInputs == {Frac(0), <<1, 10>>, <<11, 100>>, <<1, 5>>, Frac(1)}
StdInputs == {Frac(0), <<5, 2>>, Frac(5), Frac(6)}
DurationInputs == {0, 29, 30, 31}

ScoreInit ==
    /\ SessionInit
    /\ TrackerIdle
    /\ StoreInit
    /\ args \in [coverage_percent : PercentInputs,
                 high_touch_coverage_percent : PercentInputs \cup {<<>>},
                 overwipe_ratio : RatioInputs,
                 uniformity_std : StdInputs,
                 duration_s : DurationInputs]
    /\ result = <<>>

CallComputeQualityScore ==
    /\ result = <<>>
    /\ result' = <<ComputeQualityScore(args.coverage_percent, args.high_touch_coverage_percent,
                                       args.overwipe_ratio, args.uniformity_std, args.duration_s)>>
    /\ UNCHANGED <<args, sessionVars, storeVars, tracker>>

\* a further call that differs in the duration only
CallComputeQualityScoreAgain ==
    /\ result # <<>>
    /\ Len(result) < MaxCalls
    /\ \E d \in DurationInputs \ {args.duration_s} : args' = [args EXCEPT !.duration_s = d]
    /\ result' = Append(result,
                    ComputeQualityScore(args'.coverage_percent, args'.high_touch_coverage_percent,
                                        args'.overwipe_ratio, args'.uniformity_std, args'.duration_s))
    /\ UNCHANGED <<sessionVars, storeVars, tracker>>

NextScore == CallComputeQualityScore \/ CallComputeQualityScoreAgain

SpecScore == ScoreInit /\ [][NextScore]_vars

\* ------------------------------------------------------------ missed zones
\* the first n elements of a sequence (all of it when it is shorter)
Take(s, n) == SubSeq(s, 1, Min(Len(s), n))

\* the entries of a list of cells, all with one priority
Items(cells, priority) == [i \in 1..Len(cells) |-> [r |-> cells[i][1], c |-> cells[i][2], priority |-> priority]]

\* top_missed_cells with the normal cells listed first
TopMissedCells_NormalFirst(coverage_count_grid, high_touch_mask, k) ==
    LET H == Len(coverage_count_grid)
        W == Len(coverage_count_grid[1])
        Missed(p) == ~(coverage_count_grid[p[1] + 1][p[2] + 1] > 0)
        Hi(p) == Missed(p) /\ high_touch_mask # <<>> /\ high_touch_mask[p[1] + 1][p[2] + 1] = 1
        Lo(p) == Missed(p) /\ ~Hi(p)
    IN Take(Items(SelectSeq(RowMajor(H, W), Lo), "normal") \o Items(SelectSeq(RowMajor(H, W), Hi), "high_touch"), k)

\* top_missed_cells; np.argwhere lists the cells that pass a test in row-major order
TopMissedCells(coverage_count_grid, high_touch_mask, k) ==
    LET H == Len(coverage_count_grid)
        W == Len(coverage_count_grid[1])
        Missed(p) == ~(coverage_count_grid[p[1] + 1][p[2] + 1] > 0)
        MissedHi(p) == (IF Missed(p) THEN 1 ELSE 0) * high_touch_mask[p[1] + 1][p[2] + 1] = 1
        hi_items == IF high_touch_mask # <<>>
                    THEN Items(SelectSeq(RowMajor(H, W), MissedHi), "high_touch")
                    ELSE <<>>
        hi_set == {<<hi_items[i].r, hi_items[i].c>> : i \in 1..Len(hi_items)}
        NotListed(p) == Missed(p) /\ p \notin hi_set
    IN IF Len(hi_items) < k
       THEN hi_items \o Take(Items(SelectSeq(RowMajor(H, W), NotListed), "normal"), k - Len(hi_items))
       ELSE SubSeq(hi_items, 1, k)

\* grids that tell covered cells from missed ones
CoverGrids(h, w) == [1..h -> [1..w -> {0, 1}]]

MissedInit ==
    /\ SessionInit
    /\ TrackerIdle
    /\ StoreInit
    /\ args \in UNION {[coverage_count_grid : CoverGrids(s[1], s[2]),
                        high_touch_mask : Masks(s[1], s[2]) \cup {<<>>},
                        k : 0..MaxK] : s \in Shapes}
    /\ result = <<>>

\* the returned list, wrapped: <<items>>
CallTopMissedCells ==
    /\ result = <<>>
    /\ result' = <<TopMissedCells(args.coverage_count_grid, args.high_touch_mask, args.k)>>
    /\ UNCHANGED <<args, sessionVars, storeVars, tracker>>

SpecMissed == MissedInit /\ [][CallTopMissedCells]_vars

\* --------------------------------------------------------------- pipeline
OVERWIPE_THRESHOLD == 3

\* compute_overwipe_ratio that counts only the cells above the threshold
ComputeOverwipeRatio_Above(coverage_count_grid, overwipe_threshold) ==
    LET O == [r \in DOMAIN coverage_count_grid |-> [c \in DOMAIN coverage_count_grid[r] |->
                 IF coverage_count_grid[r][c] > overwipe_threshold THEN 1 ELSE 0]]
    IN <<MatrixSum(O), Cardinality(PixelsOf(O))>>

\* compute_overwipe_ratio: (G >= overwipe_threshold).mean()
ComputeOverwipeRatio(coverage_count_grid, overwipe_threshold) ==
    LET O == [r \in DOMAIN coverage_count_grid |-> [c \in DOMAIN coverage_count_grid[r] |->
                 IF coverage_count_grid[r][c] >= overwipe_threshold THEN 1 ELSE 0]]
    IN <<MatrixSum(O), Cardinality(PixelsOf(O))>>

\* compute_uniformity_std: G.std(), the population deviation, to two decimals
\* (rounded down): sqrt(n * sum(x^2) - sum(x)^2) / n
ComputeUniformityStd(coverage_count_grid) ==
    LET n == Cardinality(PixelsOf(coverage_count_grid))
        sq == [r \in DOMAIN coverage_count_grid |-> [c \in DOMAIN coverage_count_grid[r] |->
                 coverage_count_grid[r][c] * coverage_count_grid[r][c]]]
        t == n * MatrixSum(sq) - MatrixSum(coverage_count_grid) * MatrixSum(coverage_count_grid)
        top == 100 * OVERWIPE_THRESHOLD
    IN <<CHOOSE k \in 0..top : k * k * n * n <= 10000 * t /\ 10000 * t < (k + 1) * (k + 1) * n * n,
         100>>

\* count_wipe_events; None is <<>> (and comes back as -1, no count)
CountWipeEvents(wipe_events) == IF wipe_events = <<>> THEN 0 - 1 ELSE Len(wipe_events)

\* run_pipeline, without the placeholders that are always None
RunPipeline(coverage_count_grid, high_touch_mask, wipe_events, duration_s, overwipe_threshold) ==
    LET coverage_percent == ComputeCoveragePercent(coverage_count_grid)
        high_touch_cov == ComputeHighTouchCoveragePercent(coverage_count_grid, high_touch_mask)
        overwipe_ratio == ComputeOverwipeRatio(coverage_count_grid, overwipe_threshold)
        uniformity_std == ComputeUniformityStd(coverage_count_grid)
        scored == ComputeQualityScore(coverage_percent, high_touch_cov, overwipe_ratio,
                                      uniformity_std, duration_s)
    IN [coverage_percent |-> coverage_percent,
        high_touch_coverage_percent |-> high_touch_cov,
        overwipe_ratio |-> overwipe_ratio,
        uniformity_std |-> uniformity_std,
        wipe_events_count |-> CountWipeEvents(wipe_events),
        quality_score |-> scored.quality,
        missed_cells |-> TopMissedCells(coverage_count_grid, high_touch_mask, 15),
        flags |-> scored.flags]

\* grids with cells missed, wiped once and wiped OVERWIPE_THRESHOLD times
PipeGrids(h, w) == [1..h -> [1..w -> {0, 1, OVERWIPE_THRESHOLD}]]

PipeShapes == {s \in (1..MaxPipeCells) \X (1..MaxPipeCells) : s[1] * s[2] <= MaxPipeCells}

PipelineInit ==
    /\ SessionInit
    /\ TrackerIdle
    /\ StoreInit
    /\ args \in UNION {[coverage_count_grid : PipeGrids(s[1], s[2]),
                        high_touch_mask : Masks(s[1], s[2]) \cup {<<>>},
                        duration_s : {29, 30}] : s \in PipeShapes}
    /\ result = <<>>

\* the call ingest_session makes: no wipe events, overwipe_threshold=3
CallRunPipeline ==
    /\ result = <<>>
    /\ result' = <<RunPipeline(args.coverage_count_grid, args.high_touch_mask, <<>>,
                               args.duration_s, 3)>>
    /\ UNCHANGED <<args, sessionVars, storeVars, tracker>>

SpecPipeline == PipelineInit /\ [][CallRunPipeline]_vars

\* ----------------------------------------------------------------- ingest
\* len(rows) != grid_h or any(len(row) != grid_w for row in rows)
ShapeDiffers(rows, grid_h, grid_w) ==
    Len(rows) # grid_h \/ \E r \in 1..Len(rows) : Len(rows[r]) # grid_w

\* the validation that also turns away a session of no duration
IngestRejection_NeedsDuration(p, sessions) ==
    IF p.end_time - p.start_time <= 0 THEN "400 end_time must be after start_time"
    ELSE IF Len(p.coverage_count_grid) # p.grid_h THEN "400 coverage_count_grid height != grid_h"
    ELSE IF \E r \in 1..Len(p.coverage_count_grid) : Len(p.coverage_count_grid[r]) # p.grid_w
    THEN "400 coverage_count_grid width != grid_w"
    ELSE IF p.high_touch_mask # <<>> /\ ShapeDiffers(p.high_touch_mask, p.grid_h, p.grid_w)
    THEN "400 high_touch_mask shape must match grid_h x grid_w"
    ELSE IF \E s \in sessions : s.session_id = p.session_id
    THEN "409 session_id already exists"
    ELSE ""

\* the checks of ingest_session in their order: the detail of the HTTPException
\* raised, "" when the payload passes (high_touch_mask None is <<>>)
IngestRejection(p, sessions) ==
    IF p.end_time - p.start_time < 0 THEN "400 end_time must be after start_time"
    ELSE IF Len(p.coverage_count_grid) # p.grid_h THEN "400 coverage_count_grid height != grid_h"
    ELSE IF \E r \in 1..Len(p.coverage_count_grid) : Len(p.coverage_count_grid[r]) # p.grid_w
    THEN "400 coverage_count_grid width != grid_w"
    ELSE IF p.high_touch_mask # <<>> /\ ShapeDiffers(p.high_touch_mask, p.grid_h, p.grid_w)
    THEN "400 high_touch_mask shape must match grid_h x grid_w"
    ELSE IF \E s \in sessions : s.session_id = p.session_id
    THEN "409 session_id already exists"
    ELSE ""

\* the three rows ingest_session adds for a payload
SessionRow(p) ==
    [session_id |-> p.session_id, surface_type |-> p.surface_type, room_id |-> p.room_id,
     start_time |-> p.start_time, end_time |-> p.end_time,
     duration_s |-> p.end_time - p.start_time, grid_h |-> p.grid_h, grid_w |-> p.grid_w]

GridRow(p) ==
    [session_id |-> p.session_id, coverage_count_grid |-> p.coverage_count_grid,
     high_touch_mask |-> p.high_touch_mask]

MetricsRow(p) ==
    [session_id |-> p.session_id,
     metrics |-> RunPipeline(p.coverage_count_grid, p.high_touch_mask, <<>>,
                             p.end_time - p.start_time, 3)]

\* the payloads posted: MaxIds session ids; an end before, at and after the
\* start; a grid of 1 x 2 and a ragged one of two rows, declared as 1 x 2 or
\* 2 x 1; no mask or a mask of 1 x 2 or 2 x 1
IngestPayloads ==
    {p \in [session_id : 1..MaxIds, surface_type : {"tray"}, room_id : {1},
            start_time : {1}, end_time : {0, 1, 2},
            grid_h : {1, 2}, grid_w : {1, 2},
            coverage_count_grid : {<<<<0, 3>>>>, <<<<0, 3>>, <<1>>>>},
            high_touch_mask : {<<>>, <<<<1, 0>>>>, <<<<1>>, <<0>>>>}] :
        p.grid_h * p.grid_w = 2}

\* ingest_session up to the duplicate test: the payload is turned away with an
\* HTTPException, or held for the rows to be added
IngestCheck(w, p) ==
    /\ ing[w].pc = "idle"
    /\ IF IngestRejection(p, db.sessions) # ""
       THEN /\ ret' = IngestRejection(p, db.sessions)
            /\ UNCHANGED ing
       ELSE /\ ing' = [ing EXCEPT ![w] = [pc |-> "add", payload |-> p]]
            /\ UNCHANGED ret
    /\ UNCHANGED <<db, state, arrays, preview_boxes, now, pc, payload, posts,
                   f_pc, f_local, f_hands, gridVars, tracker>>

\* run_pipeline raises on a grid without rows: top_missed_cells cannot unpack
\* its shape into H, W
PipelineFails(p) == p.coverage_count_grid = <<>>

\* ingest_session committing the session row before the scoring
IngestCommit_SessionFirst(w) ==
    /\ ing[w].pc = "add"
    /\ IF \E s \in db.sessions : s.session_id = ing[w].payload.session_id
       THEN /\ ret' = "500 IntegrityError"
            /\ ing' = [ing EXCEPT ![w] = NoIngest]
            /\ UNCHANGED db
       ELSE IF PipelineFails(ing[w].payload)
       THEN /\ ret' = "500 ValueError"
            /\ ing' = [ing EXCEPT ![w] = NoIngest]
            /\ db' = [db EXCEPT !.sessions = @ \cup {SessionRow(ing[w].payload)}]
       ELSE /\ db' = [sessions |-> db.sessions \cup {SessionRow(ing[w].payload)},
                      session_grids |-> db.session_grids \cup {GridRow(ing[w].payload)},
                      session_metrics |-> db.session_metrics \cup {MetricsRow(ing[w].payload)}]
            /\ ing' = [ing EXCEPT ![w] = [pc |-> "push", payload |-> <<>>]]
            /\ UNCHANGED ret
    /\ UNCHANGED <<state, arrays, preview_boxes, now, pc, payload, posts,
                   f_pc, f_local, f_hands, gridVars, tracker>>

\* db.add of the three rows, run_pipeline and db.commit: an exception of
\* run_pipeline ends the request before the commit, and the commit fails as a
\* whole on the primary key when the id was stored in the meantime
IngestCommit(w) ==
    /\ ing[w].pc = "add"
    /\ IF PipelineFails(ing[w].payload)
       THEN /\ ret' = "500 ValueError"
            /\ ing' = [ing EXCEPT ![w] = NoIngest]
            /\ UNCHANGED db
       ELSE IF \E s \in db.sessions : s.session_id = ing[w].payload.session_id
       THEN /\ ret' = "500 IntegrityError"
            /\ ing' = [ing EXCEPT ![w] = NoIngest]
            /\ UNCHANGED db
       ELSE /\ db' = [sessions |-> db.sessions \cup {SessionRow(ing[w].payload)},
                      session_grids |-> db.session_grids \cup {GridRow(ing[w].payload)},
                      session_metrics |-> db.session_metrics \cup {MetricsRow(ing[w].payload)}]
            /\ ing' = [ing EXCEPT ![w] = [pc |-> "push", payload |-> <<>>]]
            /\ UNCHANGED ret
    /\ UNCHANGED <<state, arrays, preview_boxes, now, pc, payload, posts,
                   f_pc, f_local, f_hands, gridVars, tracker>>

\* push_summary, whose failure is printed and dropped, and the response
IngestRespond(w) ==
    /\ ing[w].pc = "push"
    /\ \E pushed \in BOOLEAN : ret' = "200 ok"
    /\ ing' = [ing EXCEPT ![w] = NoIngest]
    /\ UNCHANGED <<db, state, arrays, preview_boxes, now, pc, payload, posts,
                   f_pc, f_local, f_hands, gridVars, tracker>>

NextIngest ==
    \E w \in Ingesters :
        \/ \E p \in IngestPayloads : IngestCheck(w, p)
        \/ IngestCommit(w)
        \/ IngestRespond(w)

SpecIngest == Init /\ [][NextIngest]_vars

\* payloads that pass the validation: MaxIds session ids, an end at or after
\* the start, a 1 x 2 grid or a grid without rows declared 0 x 0, no mask
StorePayloads ==
    {p \in [session_id : 1..MaxIds, surface_type : {"tray"}, room_id : {1},
            start_time : {1}, end_time : {1, 2},
            grid_h : {0, 1}, grid_w : {0, 2},
            coverage_count_grid : {<<>>, <<<<0, 3>>>>},
            high_touch_mask : {<<>>}] :
        /\ IngestRejection(p, {}) = ""
        /\ p.grid_h = 0 <=> p.grid_w = 0}

\* concurrent ingest requests of valid payloads, some of which fail in scoring
NextStore ==
    \E w \in Ingesters :
        \/ \E p \in StorePayloads : IngestCheck(w, p)
        \/ IngestCommit(w)
        \/ IngestRespond(w)

SpecStore == Init /\ [][NextStore]_vars

\* ------------------------------------------------------- room aggregation
\* _get_sessions without the filter on the surface type
GetSessions_AnySurface(sessions, room_id, surface_type, n) ==
    LET match == {s \in sessions : s.room_id = room_id}
        orders == {q \in [1..Cardinality(match) -> match] :
                      /\ \A i, j \in DOMAIN q : i # j => q[i] # q[j]
                      /\ \A i, j \in DOMAIN q : i < j => q[i].end_time >= q[j].end_time}
    IN {Take(q, n) : q \in orders}

\* _get_sessions: the sessions of the room and surface type, newest end_time
\* first (sessions of equal end_time in any order), at most n of them; every
\* list the query can return
GetSessions(sessions, room_id, surface_type, n) ==
    LET match == {s \in sessions : s.room_id = room_id /\ s.surface_type = surface_type}
        orders == {q \in [1..Cardinality(match) -> match] :
                      /\ \A i, j \in DOMAIN q : i # j => q[i] # q[j]
                      /\ \A i, j \in DOMAIN q : i < j => q[i].end_time >= q[j].end_time}
    IN {Take(q, n) : q \in orders}

\* the grids of the retrieved sessions that exist and are not empty, in order
UsableGrids(retrieved, session_grids) ==
    LET Usable(s) == \E g \in session_grids :
                        g.session_id = s.session_id /\ g.coverage_count_grid # <<>>
        kept == SelectSeq(retrieved, Usable)
    IN [i \in 1..Len(kept) |->
           (CHOOSE g \in session_grids : g.session_id = kept[i].session_id).coverage_count_grid]

\* items.sort(key=touch_count, reverse=True): stable, so cells of equal count
\* keep their row-major order
SortByCountDesc(items) ==
    LET Place(i) == 1 + Cardinality({j \in 1..Len(items) :
                        \/ items[j].touch_count > items[i].touch_count
                        \/ items[j].touch_count = items[i].touch_count /\ j < i})
    IN [pos \in 1..Len(items) |-> items[CHOOSE i \in 1..Len(items) : Place(i) = pos]]

\* G.shape == shape
SameShape(G, shape) == Shape(G) = shape

\* most_touched on a list of retrieved sessions
MostTouched(retrieved, session_grids, k) ==
    IF retrieved = <<>> THEN [status |-> "404 no sessions found for room+surface_type"]
    ELSE LET all == UsableGrids(retrieved, session_grids)
         IN IF all = <<>> THEN [status |-> "404 no grids found for those sessions"]
            ELSE LET shape == Shape(all[1])
                     Same(G) == SameShape(G, shape)
                     grids == SelectSeq(all, Same)
                     H == shape[1]
                     W == shape[2]
                     agg == [r \in 1..H |-> [c \in 1..W |->
                                SumOver(1..Len(grids),
                                        [i \in 1..Len(grids) |-> grids[i][r][c]])]]
                     items == [i \in 1..(H * W) |->
                                  [r |-> RowMajor(H, W)[i][1], c |-> RowMajor(H, W)[i][2],
                                   touch_count |-> agg[RowMajor(H, W)[i][1] + 1][RowMajor(H, W)[i][2] + 1]]]
                 IN [status |-> "200", sessions_found |-> Len(retrieved),
                     sessions_used |-> Len(grids), grid_h |-> H, grid_w |-> W,
                     top_touched |-> Take(SortByCountDesc(items), k)]

\* what a stored session can look like: of the room and type asked for or of
\* another room or type; ended at 1 or 2; its grid missing, empty, 1 x 2 (two
\* of them) or 2 x 1
StoredGrids == {<<"missing">>, <<>>, <<<<1, 0>>>>, <<<<0, 2>>>>, <<<<1>>, <<1>>>>}

StoredSession(id, where, end_time) ==
    [session_id |-> id, surface_type |-> where[2], room_id |-> where[1],
     start_time |-> 1, end_time |-> end_time, duration_s |-> end_time - 1,
     grid_h |-> 1, grid_w |-> 2]

\* the tables with the sessions 1..MaxStored; the room queries do not read
\* session_metrics
RoomInit ==
    /\ SessionInit
    /\ TrackerIdle
    /\ ing = [w \in Ingesters |-> NoIngest]
    /\ \E where \in [1..MaxStored -> {<<1, "tray">>, <<2, "tray">>, <<1, "bedrail">>}],
          ends \in [1..MaxStored -> {1, 2}],
          grids \in [1..MaxStored -> StoredGrids] :
          db = [sessions |-> {StoredSession(i, where[i], ends[i]) : i \in 1..MaxStored},
                session_grids |-> {[session_id |-> i, coverage_count_grid |-> grids[i],
                                    high_touch_mask |-> <<>>] :
                                      i \in {j \in 1..MaxStored : grids[j] # <<"missing">>}},
                session_metrics |-> {}]
    /\ args \in [room_id : {1}, surface_type : {"tray"}, n_sessions : {1, MaxStored}, k : {1, 2}]
    /\ result = <<>>

\* GET /rooms/{room_id}/most_touched
CallMostTouched ==
    /\ result = <<>>
    /\ \E retrieved \in GetSessions(db.sessions, args.room_id, args.surface_type, args.n_sessions) :
          result' = <<MostTouched(retrieved, db.session_grids, args.k)>>
    /\ UNCHANGED <<args, sessionVars, storeVars, tracker>>

SpecRoom == RoomInit /\ [][CallMostTouched]_vars

\* ------------------------------------- room aggregation: missed and overwiped
\* the grids the loops of most_disregarded and overwiped_hotspots use: the
\* retrieved grids that exist and are not empty and have the shape of the
\* first of them
UsedGrids(retrieved, session_grids) ==
    LET all == UsableGrids(retrieved, session_grids)
        Same(G) == SameShape(G, Shape(all[1]))
    IN IF all = <<>> THEN <<>> ELSE SelectSeq(all, Same)

\* the items of a frequency dict: one <<r, c, cnt>> per cell marked in some
\* used session, in the order the keys were first inserted (session by
\* session, row-major within a session)
FreqItems(marks) ==
    LET H == Len(marks[1])
        W == Len(marks[1][1])
        Keys == {i \in 1..(H * W) : \E s \in 1..Len(marks) :
                    marks[s][RowMajor(H, W)[i][1] + 1][RowMajor(H, W)[i][2] + 1]}
        In(s, i) == marks[s][RowMajor(H, W)[i][1] + 1][RowMajor(H, W)[i][2] + 1]
        First(i) == CHOOSE s \in 1..Len(marks) : In(s, i) /\ \A t \in 1..(s - 1) : ~In(t, i)
        Place(i) == 1 + Cardinality({j \in Keys :
                        \/ First(j) < First(i)
                        \/ First(j) = First(i) /\ j < i})
        Cnt(i) == Cardinality({s \in 1..Len(marks) : In(s, i)})
    IN [pos \in 1..Cardinality(Keys) |->
           LET i == CHOOSE i \in Keys : Place(i) = pos
           IN <<RowMajor(H, W)[i][1], RowMajor(H, W)[i][2], Cnt(i)>>]

\* items.sort(key=count, reverse=True) on <<r, c, cnt>> items: stable
SortByFreqDesc(items) ==
    LET Place(i) == 1 + Cardinality({j \in 1..Len(items) :
                        \/ items[j][3] > items[i][3]
                        \/ items[j][3] = items[i][3] /\ j < i})
    IN [pos \in 1..Len(items) |-> items[CHOOSE i \in 1..Len(items) : Place(i) = pos]]

\* most_disregarded without the sort of the items
MostDisregarded_Unsorted(retrieved, session_grids, k) ==
    IF retrieved = <<>> THEN [status |-> "404 no sessions found for room+surface_type"]
    ELSE LET grids == UsedGrids(retrieved, session_grids)
             zeros == [s \in 1..Len(grids) |->
                          [r \in 1..Len(grids[s]) |-> [c \in 1..Len(grids[s][r]) |->
                              grids[s][r][c] = 0]]]
             miss_freq == IF grids = <<>> THEN <<>> ELSE FreqItems(zeros)
         IN IF miss_freq = <<>>
            THEN [status |-> "404 no missed cells found (or no usable grids)"]
            ELSE LET items == [i \in 1..Len(miss_freq) |->
                                  [r |-> miss_freq[i][1], c |-> miss_freq[i][2],
                                   miss_sessions |-> miss_freq[i][3]]]
                 IN [status |-> "200", sessions_found |-> Len(retrieved),
                     sessions_used |-> Len(grids),
                     grid_h |-> Shape(grids[1])[1], grid_w |-> Shape(grids[1])[2],
                     top_disregarded |-> Take(items, k)]

\* most_disregarded on a list of retrieved sessions
MostDisregarded(retrieved, session_grids, k) ==
    IF retrieved = <<>> THEN [status |-> "404 no sessions found for room+surface_type"]
    ELSE LET grids == UsedGrids(retrieved, session_grids)
             zeros == [s \in 1..Len(grids) |->
                          [r \in 1..Len(grids[s]) |-> [c \in 1..Len(grids[s][r]) |->
                              grids[s][r][c] = 0]]]
             miss_freq == IF grids = <<>> THEN <<>> ELSE FreqItems(zeros)
         IN IF miss_freq = <<>>
            THEN [status |-> "404 no missed cells found (or no usable grids)"]
            ELSE LET sorted == SortByFreqDesc(miss_freq)
                     items == [i \in 1..Len(sorted) |->
                                  [r |-> sorted[i][1], c |-> sorted[i][2],
                                   miss_sessions |-> sorted[i][3]]]
                 IN [status |-> "200", sessions_found |-> Len(retrieved),
                     sessions_used |-> Len(grids),
                     grid_h |-> Shape(grids[1])[1], grid_w |-> Shape(grids[1])[2],
                     top_disregarded |-> Take(items, k)]

\* overwiped_hotspots on a list of retrieved sessions; with no usable grid the
\* shape stays None and the answer still is a result
OverwipedHotspots(retrieved, session_grids, k, threshold) ==
    IF retrieved = <<>> THEN [status |-> "404 no sessions found for room+surface_type"]
    ELSE LET grids == UsedGrids(retrieved, session_grids)
             mask == [s \in 1..Len(grids) |->
                         [r \in 1..Len(grids[s]) |-> [c \in 1..Len(grids[s][r]) |->
                             grids[s][r][c] >= threshold]]]
             freq == IF grids = <<>> THEN <<>> ELSE FreqItems(mask)
             sorted == SortByFreqDesc(freq)
             items == [i \in 1..Len(sorted) |->
                          [r |-> sorted[i][1], c |-> sorted[i][2],
                           overwipe_sessions |-> sorted[i][3]]]
         IN [status |-> "200", threshold |-> threshold,
             sessions_found |-> Len(retrieved), sessions_used |-> Len(grids),
             grid_h |-> IF grids = <<>> THEN None ELSE Shape(grids[1])[1],
             grid_w |-> IF grids = <<>> THEN None ELSE Shape(grids[1])[2],
             top_overwiped |-> Take(items, k)]

\* the tables of RoomInit with all sessions ended at the same time, so that a
\* retrieval returns them in any order; a query of one of the three endpoints
\* (threshold is read by overwiped_hotspots only)
RoomAggInit ==
    /\ SessionInit
    /\ TrackerIdle
    /\ ing = [w \in Ingesters |-> NoIngest]
    /\ \E where \in [1..MaxStored -> {<<1, "tray">>, <<1, "bedrail">>}],
          grids \in [1..MaxStored -> StoredGrids] :
          db = [sessions |-> {StoredSession(i, where[i], 1) : i \in 1..MaxStored},
                session_grids |-> {[session_id |-> i, coverage_count_grid |-> grids[i],
                                    high_touch_mask |-> <<>>] :
                                      i \in {j \in 1..MaxStored : grids[j] # <<"missing">>}},
                session_metrics |-> {}]
    /\ args \in [fn : {"most_touched", "most_disregarded", "overwiped_hotspots"},
                 room_id : {1}, surface_type : {"tray"}, n_sessions : {MaxStored},
                 k : {1, 2}, threshold : {1, 2}]
    /\ result = <<>>

\* GET /rooms/{room_id}/most_touched, in the specification of the three endpoints
CallMostTouchedAgg ==
    /\ args.fn = "most_touched"
    /\ CallMostTouched

\* GET /rooms/{room_id}/most_disregarded
CallMostDisregarded ==
    /\ args.fn = "most_disregarded"
    /\ result = <<>>
    /\ \E retrieved \in GetSessions(db.sessions, args.room_id, args.surface_type, args.n_sessions) :
          result' = <<MostDisregarded(retrieved, db.session_grids, args.k)>>
    /\ UNCHANGED <<args, sessionVars, storeVars, tracker>>

\* GET /rooms/{room_id}/overwiped_hotspots
CallOverwipedHotspots ==
    /\ args.fn = "overwiped_hotspots"
    /\ result = <<>>
    /\ \E retrieved \in GetSessions(db.sessions, args.room_id, args.surface_type, args.n_sessions) :
          result' = <<OverwipedHotspots(retrieved, db.session_grids, args.k, args.threshold)>>
    /\ UNCHANGED <<args, sessionVars, storeVars, tracker>>

NextRoomAgg == CallMostTouchedAgg \/ CallMostDisregarded \/ CallOverwipedHotspots

SpecRoomAgg == RoomAggInit /\ [][NextRoomAgg]_vars

\* ------------------------------------------------------- surface detection
\* (x2 - x1) * (y2 - y1) >= h * w * 0.08, and area >= h * w * 0.08
AtLeastMinArea(area, h, w) == 100 * area >= 8 * h * w

\* 0.3 < aspect < 6.0 with aspect = cw / ch, or 0 when ch is 0
AspectKept(cw, ch) == ch > 0 /\ 10 * cw > 3 * ch /\ cw < 6 * ch

\* the bounding boxes of the contours kept by stage 3, in the order found
ContourBoxes(contours, h, w) ==
    LET Kept(cnt) == AtLeastMinArea(cnt.area, h, w) /\ AspectKept(cnt.cw, cnt.ch)
        kept == SelectSeq(contours, Kept)
    IN [i \in 1..Len(kept) |->
           <<kept[i].x, kept[i].y, kept[i].x + kept[i].cw, kept[i].y + kept[i].ch>>]

\* contour_boxes.sort(key=area, reverse=True)[0]: the first box of the
\* largest area
LargestBox(boxes) ==
    boxes[CHOOSE i \in 1..Len(boxes) :
             /\ \A j \in 1..Len(boxes) : BoxArea(boxes[j]) <= BoxArea(boxes[i])
             /\ \A j \in 1..(i - 1) : BoxArea(boxes[j]) < BoxArea(boxes[i])]

\* _detect_surface that returns every kept contour box in stage 3
DetectSurface_AllContours(h, w, table_boxes, all_boxes, contours) ==
    LET Large(b) == AtLeastMinArea(BoxArea(b), h, w)
        large_boxes == SelectSeq(all_boxes, Large)
        contour_boxes == ContourBoxes(contours, h, w)
    IN IF table_boxes # <<>> THEN table_boxes
       ELSE IF large_boxes # <<>> THEN large_boxes
       ELSE IF contour_boxes # <<>> THEN contour_boxes
       ELSE <<<<w \div 10, h \div 10, w - w \div 10, h - h \div 10>>>>

\* _detect_surface on an h x w frame, given what the detector reports for the
\* table class (table_boxes) and for all classes (all_boxes) and the contours
\* found in the frame
DetectSurface(h, w, table_boxes, all_boxes, contours) ==
    LET Large(b) == AtLeastMinArea(BoxArea(b), h, w)
        large_boxes == SelectSeq(all_boxes, Large)
        contour_boxes == ContourBoxes(contours, h, w)
        margin_x == w \div 10
        margin_y == h \div 10
    IN IF table_boxes # <<>> THEN table_boxes
       ELSE IF large_boxes # <<>> THEN large_boxes
       ELSE IF contour_boxes # <<>> THEN <<LargestBox(contour_boxes)>>
       ELSE <<<<margin_x, margin_y, w - margin_x, h - margin_y>>>>

\* boxes the detector may report, as (x1, y1, x2, y2): of area 1, 4 and 9
DetectedBoxes == {<<0, 0, 1, 1>>, <<1, 0, 3, 2>>, <<0, 0, 3, 3>>}

\* contours the frame may hold: area and bounding rectangle; a thin line, two
\* of the same bounding area and a larger one
Contours ==
    {[area |-> 8, x |-> 0, y |-> 0, cw |-> 8, ch |-> 1],
     [area |-> 3, x |-> 0, y |-> 0, cw |-> 2, ch |-> 2],
     [area |-> 4, x |-> 1, y |-> 1, cw |-> 2, ch |-> 2],
     [area |-> 6, x |-> 0, y |-> 1, cw |-> 3, ch |-> 2]}

\* the lists of at most two different elements of a set
ListsOfTwo(S) == {<<>>} \cup {<<a>> : a \in S} \cup {p \in S \X S : p[1] # p[2]}

\* a frame of positive size up to MaxFrameDim x MaxFrameDim and the outputs of
\* the two detector calls and of findContours on it
DetectInit ==
    /\ SessionInit
    /\ TrackerIdle
    /\ StoreInit
    /\ args \in [h : 1..MaxFrameDim, w : 1..MaxFrameDim,
                 table_boxes : {<<>>, <<<<0, 0, 1, 1>>>>, <<<<0, 0, 1, 1>>, <<0, 0, 3, 3>>>>},
                 all_boxes : ListsOfTwo(DetectedBoxes),
                 contours : ListsOfTwo(Contours)]
    /\ result = <<>>

CallDetectSurface ==
    /\ result = <<>>
    /\ result' = <<DetectSurface(args.h, args.w, args.table_boxes, args.all_boxes, args.contours)>>
    /\ UNCHANGED <<args, sessionVars, storeVars, tracker>>

SpecDetect == DetectInit /\ [][CallDetectSurface]_vars

\* ------------------------------------------------ key-driven tracker scripts
\* the two scripts whose main loop starts and stops a recording with the key s
TrackerVariants == {"arthur_camera", "camera"}

\* the globals before the main loop: nothing recorded, no box
TrackerStart(variant) == [NoTracker EXCEPT !.variant = variant, !.running = TRUE]

\* the keys cv2.waitKey may report in a frame: none, s, Esc
Keys == {"", "s", "esc"}

\* the loop's hand landmarks: update_heatmap for each while recording
RECURSIVE TrackerHands(_, _)
TrackerHands(t, hands) ==
    IF hands = <<>> \/ ~(t.recording /\ t.table_mask # <<>>) THEN t
    ELSE TrackerHands([t EXCEPT !.heat_map =
                          UpdateHeatmap(@, t.table_mask, hands[1][1], hands[1][2])],
                      Tail(hands))

\* the preview boxes are detected again only while table_boxes is empty
TrackerPreview(t, detected) ==
    IF t.table_boxes = <<>> THEN [t EXCEPT !.preview_boxes = detected] ELSE t

\* the payload arthur_camera.py posts when a recording is stopped
TrackerPayload(t, end_time) ==
    [session_id |-> t.session_id,
     surface_type |-> SURFACE_TYPE,
     start_time |-> t.start_time_utc,
     end_time |-> end_time,
     grid_h |-> GridH,
     grid_w |-> GridW,
     coverage_count_grid |-> HeatmapToGrid(t.heat_map, ChosenBox(t.table_boxes), GridH, GridW),
     high_touch_mask |-> ArthurMakeHighTouchMask(SURFACE_TYPE, GridH, GridW),
     wipe_events |-> <<>>]

\* the start branch of the key s: taken when nothing is recorded or finished
\* and a preview box is there
TrackerStarted(t, clock) ==
    LET common == [t EXCEPT !.table_boxes = t.preview_boxes,
                            !.table_mask = RasterMask(FrameH, FrameW, t.preview_boxes),
                            !.heat_map = Zeros(FrameH, FrameW),
                            !.recording = TRUE,
                            !.clock = clock,
                            !.started = @ + 1]
    IN IF t.variant = "arthur_camera"
       THEN [common EXCEPT !.finished = FALSE,
                           !.session_id = t.started + 1,
                           !.start_time_utc = clock]
       ELSE common

\* the stop branch of the key s: the flags, and in arthur_camera.py the post
TrackerStopped(t, clock) ==
    LET common == [t EXCEPT !.recording = FALSE, !.finished = TRUE, !.clock = clock]
    IN IF t.variant = "arthur_camera"
       THEN [common EXCEPT !.sent = Append(@, TrackerPayload(t, clock))]
       ELSE common

\* the key handling of one frame: s starts or stops, Esc leaves the loop
TrackerKey(t, key, clock) ==
    IF key = "s"
    THEN IF ~t.recording /\ ~t.finished
         THEN IF t.preview_boxes # <<>> THEN TrackerStarted(t, clock) ELSE t
         ELSE IF t.recording THEN TrackerStopped(t, clock)
         ELSE t
    ELSE IF key = "esc" THEN [t EXCEPT !.running = FALSE]
    ELSE t

\* the hands a frame may show: none, or one palm of a radius
HandInputs == {<<>>} \cup {<<<<palm, radius>>>> : palm \in Palms, radius \in Radii}

\* the table boxes the detector may report in a frame
TableBoxInputs == {<<>>, <<CornerBox, RightBox>>}

TrackerInit ==
    /\ SessionInit
    /\ GridIdle
    /\ StoreInit
    /\ tracker \in {TrackerStart(v) : v \in TrackerVariants}

\* one iteration of the main loop: the key is read, the hands update the
\* heatmap, the preview is refreshed, the key is handled
TrackerFrame ==
    /\ tracker.running
    /\ \E key \in Keys, hands \in HandInputs, detected \in TableBoxInputs,
          clock \in tracker.clock..MaxClock :
          /\ key = "s" /\ ~tracker.recording /\ ~tracker.finished => tracker.started < MaxSessions
          /\ hands # <<>> /\ tracker.recording => HeatBelow(tracker.heat_map, MaxWipes)
          /\ tracker' = [TrackerKey(TrackerPreview(TrackerHands(tracker, hands), detected),
                                    key, clock) EXCEPT !.key = key]
    /\ UNCHANGED <<sessionVars, gridVars, storeVars>>

SpecTracker == TrackerInit /\ [][TrackerFrame]_vars

\* ================================================================ claims
FrameShape == <<FrameH, FrameW>>

\* a control step that is a start_session call (direct or through /camera/start)
StartStep(c) ==
    \/ \E boxes \in BoxInputs : StartSession(c, FrameShape, boxes)
    \/ CameraStart(c)

\* C1: a start_session call made while recording, or with an empty box list,
\* returns False and leaves the whole shared state (and the heat arrays) as it
\* was; so does /camera/start with no preview box.  A start that returns True
\* starts from a state that is not recording and leaves it recording, and only
\* a locked block of stop_session ends a recording: two starts with no stop
\* between them cannot both return True.
C1_StartRejectedIsNoOp ==
    [][ /\ \A c \in Callers, boxes \in BoxInputs :
             ((state.recording \/ boxes = <<>>) /\ StartSession(c, FrameShape, boxes))
                 => (ret' = "start_false" /\ state' = state /\ arrays' = arrays)
        /\ \A c \in Callers :
             ((state.recording \/ preview_boxes = <<>>) /\ CameraStart(c))
                 => (ret' = "start_false" /\ state' = state /\ arrays' = arrays)
        /\ \A c \in Callers :
             (ret' = "start_true" /\ StartStep(c))
                 => (~state.recording /\ state'.recording)
        /\ (state.recording /\ ~state'.recording)
               => \E c \in Callers : StopFinalize(c) \/ StopReset(c)
      ]_vars

\* a start was refused while a session was being recorded
C1_Witness == ret = "start_false" /\ state.recording /\ state.session_id # None

\* C2: a stop_session call made while nothing is recorded returns False and
\* changes no field of the shared state; the caller builds no payload, stays
\* outside stop_session's later blocks, and no delivery is started.
C2_StopRejectedIsNoOp ==
    [][ \A c \in Callers :
          (~state.recording /\ StopFinalize(c))
              => /\ ret' = "stop_false"
                 /\ state' = state
                 /\ payload' = payload
                 /\ pc' = pc
                 /\ posts' = posts
      ]_vars

\* a stop was refused, once in the idle state and once right after another
\* caller's stop had finished the session
C2_Witness == ret = "stop_false" /\ state.finished

\* the fields that hold a session are all clear
IdleFields(st) ==
    /\ ~st.recording
    /\ ~st.finished
    /\ st.table_boxes = <<>>
    /\ st.table_mask = <<>>
    /\ st.heat_map = None
    /\ st.session_id = None

\* C3: with a single control caller, whenever the last call to return is a
\* stop_session that returned True the machine is idle (recording and finished
\* False, boxes empty, mask, heatmap and session id None), and a start_session
\* with a non-empty box list made in that state returns True.
C3_StopLeavesStartable ==
    [][ /\ ret' = "stop_true" => IdleFields(state')
        /\ \A boxes \in BoxInputs \ {<<>>} :
             (ret = "stop_true" /\ StartSession(1, FrameShape, boxes)) => ret' = "start_true"
        /\ (ret = "stop_true" /\ preview_boxes # <<>> /\ CameraStart(1)) => ret' = "start_true"
      ]_vars

\* the second session is being recorded: it was started right after the stop
\* that delivered the first one
C3_Witness ==
    /\ ret = "start_true"
    /\ state.recording
    /\ state.session_id = 2
    /\ Len(posts) = 1

Phase(st) == IF st.recording THEN "recording" ELSE IF st.finished THEN "finished" ELSE "idle"

\* C4: the machine only moves idle -> recording -> finished -> idle: no start
\* returns True while finished is set, and finished is only set while recording.
C4_OnlyLifecycleTransitions ==
    [][ /\ Phase(state') # Phase(state)
             => <<Phase(state), Phase(state')>> \in
                    {<<"idle", "recording">>, <<"recording", "finished">>, <<"finished", "idle">>}
        /\ \A c \in Callers : (ret' = "start_true" /\ StartStep(c)) => ~state.finished
        /\ (~state.finished /\ state'.finished) => state.recording
      ]_vars

\* C5: whenever the frame loop runs _update_heatmap, the shared state holds the
\* heatmap and the mask of a session that is being recorded.
C5_UpdateOnlyWhileRecording ==
    [][ FrameHand(MaxHeat)
          => (state.recording /\ state.heat_map # None /\ state.table_mask # <<>>)
      ]_vars

\* C6: delivery and the session lifecycle do not wait for each other.  The
\* second locked block of stop_session can always run and leaves the machine
\* idle; whenever nothing is recorded a start_session with boxes can return
\* True, whatever the state of earlier deliveries; and a delivery step changes
\* no field of the shared state, no heat array, no caller and no return value.
C6_Startable ==
    \A c \in Callers :
        /\ pc[c] = "reset" => ENABLED StopReset(c)
        /\ (pc[c] = "idle" /\ ~state.recording /\ Len(arrays) < MaxSessions)
              => ENABLED (StartSessionCall(c) /\ ret' = "start_true")

C6_DeliveryIndependent ==
    /\ []C6_Startable
    /\ [][ /\ \A c \in Callers :
                StopReset(c) => (IdleFields(state') /\ ret' = "stop_true")
           /\ (\E i \in 1..MaxSessions : PostSession(i))
                => <<state, arrays, pc, payload, ret>>' = <<state, arrays, pc, payload, ret>>
         ]_vars

\* the second session is being recorded while the first one's delivery has
\* not finished
C6_Witness ==
    /\ state.recording
    /\ state.session_id = 2
    /\ Len(posts) = 1
    /\ posts[1].status = "started"
    /\ posts[1].payload.session_id = 1

\* C7: every delivery makes at most one request and is never touched again
\* once it has ended; no two deliveries carry the same session id; a delivery
\* is started only by a caller passing from stop_session's first block to its
\* second, exactly one each time, with the payload that caller built from the
\* session being recorded; a caller enters stop_session's later blocks only
\* from a recording state and returns True only from the second block.
C7_PostsSound ==
    /\ \A i \in 1..Len(posts) :
          /\ posts[i].attempts <= 1
          /\ posts[i].attempts = 0 <=> posts[i].status = "started"
    /\ \A i, j \in 1..Len(posts) :
          i # j => posts[i].payload.session_id # posts[j].payload.session_id

C7_OneDeliveryPerStop ==
    /\ []C7_PostsSound
    /\ [][ /\ Len(posts') # Len(posts)
                => \E c \in Callers :
                      /\ pc[c] = "spawn" /\ pc'[c] = "reset"
                      /\ posts' = Append(posts, [payload |-> payload[c],
                                                 status |-> "started", attempts |-> 0])
           /\ \A c \in Callers :
                /\ (pc[c] # "reset" /\ pc'[c] = "reset")
                      => (pc[c] = "spawn" /\ Len(posts') = Len(posts) + 1)
                /\ (pc[c] # "spawn" /\ pc'[c] = "spawn")
                      => /\ pc[c] = "idle"
                         /\ state.recording
                         /\ payload'[c].session_id = state.session_id
                /\ (pc[c] # "idle" /\ pc'[c] = "idle")
                      => (pc[c] = "reset" /\ ret' = "stop_true")
                /\ (ret' = "stop_true" /\ StopReset(c)) => pc[c] = "reset"
           /\ \A i \in 1..Len(posts) :
                posts[i].status # "started" => posts'[i] = posts[i]
         ]_vars

\* of two stops racing for one session one was refused, and the single
\* delivery has failed and stays failed
C7_Witness ==
    /\ ret = "stop_false"
    /\ \E c \in Callers : pc[c] = "reset"
    /\ Len(posts) = 1
    /\ posts[1].status = "failed"

\* C8: the heatmap of a session is all zero right after start_session; each
\* contact update adds one step of 0.02, capped at 1, at exactly the pixels of
\* the contact disk that lie in the surface mask and leaves every other pixel
\* as it was; so every value stays in [0, 1], none decreases, and the pixels
\* outside the mask stay 0.
C8_HeatInRange ==
    /\ \A k \in 1..Len(arrays) : \A p \in PixelsOf(arrays[k]) :
          arrays[k][p[1]][p[2]] \in 0..HEAT_ONE
    /\ state.heat_map # None =>
          \A p \in PixelsOf(state.table_mask) :
              state.table_mask[p[1]][p[2]] # 255 => arrays[state.heat_map][p[1]][p[2]] = 0

C8_HeatmapLaw ==
    /\ []C8_HeatInRange
    /\ [][ /\ (ret' = "start_true" /\ StartStep(1))
                => /\ state'.heat_map = Len(arrays')
                   /\ \A p \in PixelsOf(arrays'[state'.heat_map]) :
                         arrays'[state'.heat_map][p[1]][p[2]] = 0
           /\ FrameHand(HEAT_ONE + 1)
                => \E palm \in Palms, radius \in Radii :
                      \A p \in PixelsOf(arrays[state.heat_map]) :
                          arrays'[state.heat_map][p[1]][p[2]] =
                              IF /\ InDisk(p[2] - 1, p[1] - 1, palm, radius)
                                 /\ state.table_mask[p[1]][p[2]] = 255
                              THEN Min(HEAT_ONE, arrays[state.heat_map][p[1]][p[2]] + 1)
                              ELSE arrays[state.heat_map][p[1]][p[2]]
           /\ \A k \in 1..Len(arrays) : \A p \in PixelsOf(arrays[k]) :
                  arrays'[k][p[1]][p[2]] >= arrays[k][p[1]][p[2]]
         ]_vars

\* one pixel of the mask is saturated, another one is on its way, and a pixel
\* outside the mask lies inside a contact disk that was applied
C8_Witness ==
    /\ state.recording
    /\ arrays[state.heat_map][1][FrameW] = HEAT_ONE
    /\ arrays[state.heat_map][2][FrameW] \in 1..(HEAT_ONE - 1)
    /\ state.table_mask[1][FrameW - 1] = 0
    /\ InDisk(FrameW - 2, 0, <<FrameW - 1, 0>>, 1)

\* the crop of the call under way: <<first row, rows, first column, columns>>
ArgCrop == Crop(args.heat_map, args.table_box)

\* C9: for every heatmap with values in [0, 1], every box and all grid_h,
\* grid_w >= 1, _heatmap_to_grid returns grid_h rows of grid_w integers in
\* [0, 10], and the all-zero grid when the crop is empty.
C9_GridShapeAndRange ==
    result # <<>> =>
        /\ Len(result) = args.grid_h
        /\ \A r \in 1..Len(result) :
              /\ Len(result[r]) = args.grid_w
              /\ \A c \in 1..Len(result[r]) : result[r][c] \in 0..10
        /\ ArgCrop[2] * ArgCrop[4] = 0
              => \A r \in 1..Len(result) : \A c \in 1..Len(result[r]) : result[r][c] = 0

\* a box that sticks out of the image on both sides, a crop with fewer rows
\* than the grid, and a cell that reaches 10
C9_Witness ==
    /\ result # <<>>
    /\ args.table_box[1] < 0
    /\ args.table_box[3] > Shape(args.heat_map)[2]
    /\ ArgCrop[2] > 0
    /\ ArgCrop[2] < args.grid_h
    /\ \E r \in 1..Len(result) : \E c \in 1..Len(result[r]) : result[r][c] = 10

\* rows (columns) [r * size, (r + 1) * size) of a crop of n rows, the last
\* grid row (column) running to n
Interval(r, n, grid_n, size) ==
    {i \in 0..(n - 1) :
        r * size <= i /\ i < (IF r < grid_n - 1 THEN (r + 1) * size ELSE n)}

\* the grid obtained from the crop when grid row r takes the crop rows
\* Interval(r, h, grid_h, size_h) and column c the columns Interval(c, w, grid_w, size_w)
GridOfIntervals(size_h, size_w) ==
    [r \in 1..args.grid_h |-> [c \in 1..args.grid_w |->
        LET cell == Interval(r - 1, ArgCrop[2], args.grid_h, size_h)
                        \X Interval(c - 1, ArgCrop[4], args.grid_w, size_w)
            val  == [p \in cell |->
                        args.heat_map[ArgCrop[1] + p[1] + 1][ArgCrop[3] + p[2] + 1]]
        IN IF cell = {} THEN 0 ELSE RoundDiv(SumOver(cell, val), 5 * Cardinality(cell))]]

\* C10 as claimed: the cells are the intervals of size floor(h / gh) and
\* floor(w / gw), the last row and column running to the crop's edge.
C10_FloorCells ==
    (result # <<>> /\ ArgCrop[2] * ArgCrop[4] > 0) =>
        result = GridOfIntervals(ArgCrop[2] \div args.grid_h, ArgCrop[4] \div args.grid_w)

\* C10 as amended: the cells are the intervals of size max(1, floor(h / gh)) and
\* max(1, floor(w / gw)), the last row and column running to the crop's edge,
\* and every crop row and column lies in exactly one of them.
C10_CellsPartitionCrop ==
    (result # <<>> /\ ArgCrop[2] * ArgCrop[4] > 0) =>
        LET h == ArgCrop[2]
            w == ArgCrop[4]
        IN /\ result = GridOfIntervals(Max(1, h \div args.grid_h), Max(1, w \div args.grid_w))
           /\ \A r \in 0..(args.grid_h - 1) :
                 CellRange(r, h, args.grid_h) =
                     Interval(r, h, args.grid_h, Max(1, h \div args.grid_h))
           /\ \A c \in 0..(args.grid_w - 1) :
                 CellRange(c, w, args.grid_w) =
                     Interval(c, w, args.grid_w, Max(1, w \div args.grid_w))
           /\ \A y \in 0..(h - 1) :
                 Cardinality({r \in 0..(args.grid_h - 1) : y \in CellRange(r, h, args.grid_h)}) = 1
           /\ \A x \in 0..(w - 1) :
                 Cardinality({c \in 0..(args.grid_w - 1) : x \in CellRange(c, w, args.grid_w)}) = 1

\* a crop of one row for a grid of two, and of three columns for a grid of
\* two, whose last column takes the remainder
C10_Witness ==
    /\ result # <<>>
    /\ ArgCrop[2] = 1 /\ args.grid_h = 2
    /\ ArgCrop[4] = 3 /\ args.grid_w = 2
    /\ result[1][2] > 0

\* C11: every copy of the high-touch mask generator returns, for a surface
\* type and H, W, the same H x W matrix of 0/1: for tray, 1 exactly where
\* r < 3 or c < 3; for bedrail, exactly where c < 5 or c >= W - 5; for handle,
\* exactly where H//3 <= r < 2H//3 and W//3 <= c < 2W//3 (r, c from 0).
C11_MaskByType ==
    result # <<>> =>
        LET m == result[1]
            H == args.H
            W == args.W
        IN /\ Len(m) = H
           /\ \A r \in 0..(H - 1) :
                 /\ Len(m[r + 1]) = W
                 /\ \A c \in 0..(W - 1) :
                       /\ m[r + 1][c + 1] \in {0, 1}
                       /\ m[r + 1][c + 1] = 1 <=>
                            CASE args.surface_type = "tray" -> r < 3 \/ c < 3
                              [] args.surface_type = "bedrail" -> c < 5 \/ c >= W - 5
                              [] args.surface_type = "handle" ->
                                    /\ H \div 3 <= r /\ r < (2 * H) \div 3
                                    /\ W \div 3 <= c /\ c < (2 * W) \div 3

\* a bedrail mask wide enough for a column between the two end bands, from the
\* demo generator's copy
C11_Witness ==
    /\ result # <<>>
    /\ args.copy = "generate_demo_sessions"
    /\ args.surface_type = "bedrail"
    /\ args.W > 10
    /\ result[1][1][6] = 0
    /\ result[1][1][5] = 1
    /\ result[1][1][args.W - 4] = 1

\* C12: risk_level gives every cell one of the five labels: critical for a
\* high-touch cell with coverage 0, high for high-touch with coverage 1, low
\* for high-touch with coverage >= 2, medium for a cell not high-touch with
\* coverage 0, clear for not high-touch with coverage >= 1; and the five
\* counts of analyze_session sum to grid_h * grid_w.
C12_RiskLabels ==
    result # <<>> =>
        LET a == result[1]
        IN /\ Len(a.cells) = args.grid_h * args.grid_w
           /\ \A i \in DOMAIN a.cells :
                 LET cov == args.coverage_count_grid[a.cells[i].r + 1][a.cells[i].c + 1]
                     ht == args.high_touch_mask[a.cells[i].r + 1][a.cells[i].c + 1] = 1
                 IN /\ a.cells[i].risk \in {"critical", "high", "medium", "low", "clear"}
                    /\ a.cells[i].risk = "critical" <=> (ht /\ cov = 0)
                    /\ a.cells[i].risk = "high" <=> (ht /\ cov = 1)
                    /\ a.cells[i].risk = "low" <=> (ht /\ cov >= 2)
                    /\ a.cells[i].risk = "medium" <=> (~ht /\ cov = 0)
                    /\ a.cells[i].risk = "clear" <=> (~ht /\ cov >= 1)
           /\ \A i, j \in DOMAIN a.cells :
                 (a.cells[i].r = a.cells[j].r /\ a.cells[i].c = a.cells[j].c) => i = j
           /\ a.counts["critical"] + a.counts["high"] + a.counts["medium"]
                 + a.counts["low"] + a.counts["clear"] = args.grid_h * args.grid_w

\* a session whose cells carry all five labels
C12_Witness ==
    /\ result # <<>>
    /\ \A k \in {"critical", "high", "medium", "low", "clear"} : result[1].counts[k] > 0

\* the cells of a grid with a count above 0
CoveredCells(grid) == {p \in PixelsOf(grid) : grid[p[1]][p[2]] > 0}

\* args' is args with one zero cell of the grid made positive
ZeroCellReplaced ==
    /\ args'.fn = args.fn
    /\ args'.high_touch_mask = args.high_touch_mask
    /\ PixelsOf(args'.coverage_count_grid) = PixelsOf(args.coverage_count_grid)
    /\ \E p \in PixelsOf(args.coverage_count_grid) :
          /\ args.coverage_count_grid[p[1]][p[2]] = 0
          /\ args'.coverage_count_grid[p[1]][p[2]] > 0
          /\ \A q \in PixelsOf(args.coverage_count_grid) \ {p} :
                args'.coverage_count_grid[q[1]][q[2]] = args.coverage_count_grid[q[1]][q[2]]

\* C13: compute_coverage_percent returns 100 * (cells with count > 0) /
\* (cells), and on a grid with one zero cell replaced by a positive value it
\* returns exactly 100 / (cells) more, so never less.
C13_CoveragePercent ==
    /\ [](args.fn = "compute_coverage_percent" /\ result # <<>> =>
            LET n == Cardinality(PixelsOf(args.coverage_count_grid))
                got == result[Len(result)]
            IN got[2] > 0 /\ got[1] * n = 100 * Cardinality(CoveredCells(args.coverage_count_grid)) * got[2])
    /\ [][(args.fn = "compute_coverage_percent" /\ result # <<>> /\ ZeroCellReplaced) =>
            LET n == Cardinality(PixelsOf(args.coverage_count_grid))
                old == result[Len(result)]
                new == result'[Len(result')]
            IN /\ Len(result') = Len(result) + 1
               /\ ~FracLess(new, old)
               /\ (new[1] * old[2] - old[1] * new[2]) * n = 100 * old[2] * new[2]
         ]_vars

\* the result for a grid of three cells after two replacements, up from 0
C13_Witness ==
    /\ args.fn = "compute_coverage_percent"
    /\ Len(result) = 3
    /\ Cardinality(PixelsOf(args.coverage_count_grid)) = 3
    /\ result[1][1] = 0
    /\ FracEq(result[3], <<200, 3>>)

\* C14: compute_high_touch_coverage_percent returns None exactly when the mask
\* is absent or has no high-touch cell; otherwise it returns 100 * (high-touch
\* cells with count > 0) / (high-touch cells), which lies in [0, 100].
C14_HighTouchCoveragePercent ==
    (args.fn = "compute_high_touch_coverage_percent" /\ result # <<>>) =>
        LET got == result[1]
            ht == IF args.high_touch_mask = <<>> THEN {}
                  ELSE {p \in PixelsOf(args.high_touch_mask) :
                            args.high_touch_mask[p[1]][p[2]] = 1}
        IN /\ got = <<>> <=> (args.high_touch_mask = <<>> \/ ht = {})
           /\ got # <<>> =>
                 /\ got[2] > 0
                 /\ got[1] * Cardinality(ht) =
                       100 * Cardinality(ht \cap CoveredCells(args.coverage_count_grid)) * got[2]
                 /\ 0 <= got[1] /\ got[1] <= 100 * got[2]

\* a mask with two high-touch cells, one of them covered, and a covered cell
\* that is not high-touch: 50 percent
C14_Witness ==
    /\ args.fn = "compute_high_touch_coverage_percent"
    /\ result # <<>>
    /\ result[1] # <<>>
    /\ FracEq(result[1], <<50, 1>>)
    /\ \E p \in CoveredCells(args.coverage_count_grid) : args.high_touch_mask[p[1]][p[2]] = 0

\* C15: for coverage and high-touch coverage in [0, 100] (or no high-touch
\* coverage), overwipe ratio in [0, 1], deviation >= 0 and duration >= 0,
\* compute_quality_score returns a score in [0, 100].
C15_ScoreInRange ==
    \A i \in 1..Len(result) :
        /\ ~FracLess(result[i].quality, Frac(0))
        /\ ~FracLess(Frac(100), result[i].quality)

\* a rushed session with nothing covered, overwiped and uneven, scored twice:
\* the penalty would take the score below 0
C15_Witness ==
    /\ Len(result) = 2
    /\ FracEq(result[1].quality, Frac(0))
    /\ result[1].flags = <<"rushed", "missed_high_touch", "overwiping">>
    /\ args.coverage_percent = Frac(0)
    /\ args.uniformity_std = Frac(6)
    /\ FracEq(result[2].quality, Frac(0))

\* args' is args with another duration
OnlyDurationChanged ==
    /\ args'.duration_s # args.duration_s
    /\ [args' EXCEPT !.duration_s = args.duration_s] = args

\* "rushed" is among the flags a call returned
HasFlag(r, f) == \E i \in 1..Len(r.flags) : r.flags[i] = f

\* C16: of two calls of compute_quality_score that differ in the duration only,
\* with coverage_percent < 70, one with duration >= 30 s and one with
\* duration < 30 s, the shorter one scores max(0, the longer one's score - 15);
\* with coverage_percent >= 70, or both durations on one side of 30 s, the two
\* scores are equal.
C16_RushingPenalty ==
    [][(result # <<>> /\ Len(result') = Len(result) + 1 /\ OnlyDurationChanged) =>
          LET old == result[Len(result)].quality
              new == result'[Len(result')].quality
              low == FracLess(args.coverage_percent, Frac(70))
          IN IF low /\ args.duration_s >= 30 /\ args'.duration_s < 30
             THEN FracEq(new, FracMax(Frac(0), FracSub(old, Frac(15))))
             ELSE IF low /\ args.duration_s < 30 /\ args'.duration_s >= 30
             THEN FracEq(old, FracMax(Frac(0), FracSub(new, Frac(15))))
             ELSE FracEq(new, old)
      ]_vars

\* a session below 70 percent scored at 30 s or more and then below 30 s: 15
\* points less, not clamped
C16_Witness ==
    /\ Len(result) = 2
    /\ FracLess(args.coverage_percent, Frac(70))
    /\ args.duration_s < 30
    /\ ~HasFlag(result[1], "rushed")
    /\ HasFlag(result[2], "rushed")
    /\ FracLess(Frac(0), result[2].quality)
    /\ FracEq(FracSub(result[1].quality, result[2].quality), Frac(15))

\* the row-major rank of a cell of the grid under call
Rank(r, c) == r * Len(args.coverage_count_grid[1]) + c

\* the cell is missed, and high-touch or not
MissedAs(r, c, priority) ==
    /\ args.coverage_count_grid[r + 1][c + 1] = 0
    /\ (priority = "high_touch") <=>
          (args.high_touch_mask # <<>> /\ args.high_touch_mask[r + 1][c + 1] = 1)

\* C18: top_missed_cells returns the first k elements of the list of all missed
\* high-touch cells in row-major order (priority high_touch) followed by all
\* other missed cells in row-major order (priority normal): at most k entries,
\* no cell twice, no covered cell, no normal entry before a high_touch entry.
C18_TopMissedCells ==
    result # <<>> =>
        LET items == result[1]
            all == {<<p[1] - 1, p[2] - 1>> : p \in PixelsOf(args.coverage_count_grid)}
            missed == {p \in all : args.coverage_count_grid[p[1] + 1][p[2] + 1] = 0}
            \* the place of an entry in the full list: high_touch before normal,
            \* row-major within each
            Before(a, b) ==
                \/ a.priority = "high_touch" /\ b.priority = "normal"
                \/ a.priority = b.priority /\ Rank(a.r, a.c) < Rank(b.r, b.c)
        IN /\ Len(items) = Min(args.k, Cardinality(missed))
           /\ \A i \in 1..Len(items) :
                 /\ items[i].priority \in {"high_touch", "normal"}
                 /\ <<items[i].r, items[i].c>> \in all
                 /\ MissedAs(items[i].r, items[i].c, items[i].priority)
           /\ \A i, j \in 1..Len(items) : i < j => Before(items[i], items[j])
           \* a prefix: every missed cell left out comes after every entry
           /\ \A p \in missed :
                 (\A i \in 1..Len(items) : <<items[i].r, items[i].c>> # p) =>
                     \A i \in 1..Len(items) :
                         \E q \in {"high_touch", "normal"} :
                             /\ MissedAs(p[1], p[2], q)
                             /\ Before(items[i], [r |-> p[1], c |-> p[2], priority |-> q])

\* two missed high-touch cells and more than one other missed cell with k = 3:
\* the two high_touch entries, then one normal entry that lies before a
\* high-touch cell in row-major order
C18_Witness ==
    /\ result # <<>>
    /\ args.k = 3
    /\ Len(result[1]) = 3
    /\ result[1][2].priority = "high_touch"
    /\ result[1][3].priority = "normal"
    /\ Rank(result[1][3].r, result[1][3].c) < Rank(result[1][1].r, result[1][1].c)
    /\ Cardinality({p \in PixelsOf(args.coverage_count_grid) :
                       args.coverage_count_grid[p[1]][p[2]] = 0}) = 5

\* the high-touch cells of the session under call (none without a mask)
HighTouchCells ==
    IF args.high_touch_mask = <<>> THEN {}
    ELSE {p \in PixelsOf(args.high_touch_mask) : args.high_touch_mask[p[1]][p[2]] = 1}

\* the three flags that depend on the metrics: rushed, missed_high_touch, overwiping
MetricFlags ==
    LET n == Cardinality(PixelsOf(args.coverage_count_grid))
        covered == CoveredCells(args.coverage_count_grid)
        over == {p \in PixelsOf(args.coverage_count_grid) :
                    args.coverage_count_grid[p[1]][p[2]] >= 3}
    IN (IF args.duration_s < 30 /\ 100 * Cardinality(covered) < 70 * n
        THEN {"rushed"} ELSE {})
       \cup (IF HighTouchCells # {}
                /\ 100 * Cardinality(covered \cap HighTouchCells) < 70 * Cardinality(HighTouchCells)
             THEN {"missed_high_touch"} ELSE {})
       \cup (IF 10 * Cardinality(over) > n THEN {"overwiping"} ELSE {})

\* the flags run_pipeline returned, as a set, and whether none is there twice
ReturnedFlags == {result[1].flags[i] : i \in 1..Len(result[1].flags)}
NoFlagTwice == Cardinality(ReturnedFlags) = Len(result[1].flags)

\* C17 as claimed: no_high_touch_mask exactly when the mask is absent, rushed
\* exactly when duration < 30 s and coverage_percent < 70, missed_high_touch
\* exactly when the high-touch coverage is defined and < 70, overwiping exactly
\* when overwipe_ratio > 0.10; no other flag and none twice.
C17_FlagsAsClaimed ==
    result # <<>> =>
        /\ ReturnedFlags =
              MetricFlags \cup (IF args.high_touch_mask = <<>> THEN {"no_high_touch_mask"} ELSE {})
        /\ NoFlagTwice

\* C17 as amended: no_high_touch_mask exactly when the high-touch coverage is
\* undefined, that is when the mask is absent or has no high-touch cell; the
\* other three flags as claimed; no other flag and none twice.
C17_Flags ==
    result # <<>> =>
        /\ (result[1].high_touch_coverage_percent = <<>>) <=> (HighTouchCells = {})
        /\ ReturnedFlags =
              MetricFlags \cup (IF HighTouchCells = {} THEN {"no_high_touch_mask"} ELSE {})
        /\ NoFlagTwice

\* a rushed, overwiped session with a mask that marks no cell: three flags
C17_Witness ==
    /\ result # <<>>
    /\ args.high_touch_mask # <<>>
    /\ HighTouchCells = {}
    /\ result[1].flags = <<"no_high_touch_mask", "rushed", "overwiping">>

\* what the claim turns away: an end before the start, a grid or a mask of
\* another shape than grid_h x grid_w, an id that is stored
Rejectable(p) ==
    \/ p.end_time < p.start_time
    \/ Len(p.coverage_count_grid) # p.grid_h
    \/ \E r \in 1..Len(p.coverage_count_grid) : Len(p.coverage_count_grid[r]) # p.grid_w
    \/ /\ p.high_touch_mask # <<>>
       /\ \/ Len(p.high_touch_mask) # p.grid_h
          \/ \E r \in 1..Len(p.high_touch_mask) : Len(p.high_touch_mask[r]) # p.grid_w
    \/ \E s \in db.sessions : s.session_id = p.session_id

Rejections == {"400 end_time must be after start_time", "400 coverage_count_grid height != grid_h",
               "400 coverage_count_grid width != grid_w",
               "400 high_touch_mask shape must match grid_h x grid_w",
               "409 session_id already exists", "500 IntegrityError"}

\* a request that is turned away: nothing stored, nothing held, an error returned
TurnedAway == db' = db /\ ing' = ing /\ ret' \in Rejections

\* every payload a free request could bring is turned away if the claim says
\* so, and is held for storing if not
C19_ChecksAsClaimed ==
    \A w \in Ingesters :
        ing[w].pc = "idle" =>
            \A p \in IngestPayloads :
                IF Rejectable(p)
                THEN /\ ENABLED (IngestCheck(w, p) /\ TurnedAway)
                     /\ ~ENABLED (IngestCheck(w, p) /\ ~TurnedAway)
                ELSE /\ ENABLED (IngestCheck(w, p) /\ db' = db
                                    /\ ing'[w] = [pc |-> "add", payload |-> p])
                     /\ ~ENABLED (IngestCheck(w, p) /\ ing'[w].pc # "add")

Matching == {s \in db.sessions : s.room_id = args.room_id /\ s.surface_type = args.surface_type}

\* the lists of sessions a retrieval can be: the newest n_sessions of the
\* matching sessions (all of them if fewer), newest first
Retrievals ==
    {q \in [1..Min(args.n_sessions, Cardinality(Matching)) -> Matching] :
        /\ \A i, j \in DOMAIN q : i # j => q[i] # q[j]
        /\ \A i, j \in DOMAIN q : i < j => q[i].end_time >= q[j].end_time
        /\ \A s \in Matching \ {q[i] : i \in DOMAIN q} :
              \A i \in DOMAIN q : q[i].end_time >= s.end_time}

\* the stored grid of a session, <<>> if it has none
GridOf(s) ==
    IF \E g \in db.session_grids : g.session_id = s.session_id
    THEN (CHOOSE g \in db.session_grids : g.session_id = s.session_id).coverage_count_grid
    ELSE <<>>

\* C20: most_touched reports sessions_found = the number of retrieved sessions,
\* those without a grid or with a grid of another shape included, and
\* sessions_used = the number of grids of the shape of the first retrieved
\* grid; the touch_count of each listed cell is the sum of that cell over
\* exactly the used grids.
C20_MostTouched ==
    (result # <<>> /\ result[1].status = "200") =>
        \E q \in Retrievals :
            LET withGrid == {i \in DOMAIN q : GridOf(q[i]) # <<>>}
                first == CHOOSE i \in withGrid : \A j \in withGrid : i <= j
                used == {i \in withGrid : Shape(GridOf(q[i])) = Shape(GridOf(q[first]))}
                out == result[1]
            IN /\ withGrid # {}
               /\ out.sessions_found = Len(q)
               /\ out.sessions_used = Cardinality(used)
               /\ <<out.grid_h, out.grid_w>> = Shape(GridOf(q[first]))
               /\ Len(out.top_touched) = Min(args.k, out.grid_h * out.grid_w)
               /\ \A a, b \in 1..Len(out.top_touched) :
                     (out.top_touched[a].r = out.top_touched[b].r
                      /\ out.top_touched[a].c = out.top_touched[b].c) => a = b
               /\ \A a \in 1..Len(out.top_touched) :
                     LET e == out.top_touched[a]
                     IN /\ e.r \in 0..(out.grid_h - 1) /\ e.c \in 0..(out.grid_w - 1)
                        /\ e.touch_count =
                              SumOver(used, [i \in used |-> GridOf(q[i])[e.r + 1][e.c + 1]])

\* three sessions retrieved, one of them without a grid of the first one's
\* shape, two used: the counts of the two cells are sums over the two grids
C20_Witness ==
    /\ result # <<>>
    /\ result[1].status = "200"
    /\ result[1].sessions_found = 3
    /\ result[1].sessions_used = 2
    /\ Len(result[1].top_touched) = 2
    /\ result[1].top_touched[1].touch_count = 2
    /\ result[1].top_touched[2].touch_count = 1
    /\ \E g \in db.session_grids : Len(g.coverage_count_grid) = 2

\* a retrieved session has a usable grid: a grid row whose grid is not empty
HasUsableGrid(q) == \E i \in DOMAIN q : GridOf(q[i]) # <<>>

\* the answer is a failure
Failed == result # <<>> /\ result[1].status # "200"

\* C21: each of most_touched, most_disregarded and overwiped_hotspots answers
\* with the not-found failure when no session matches the room and surface
\* type, and with a failure when sessions are found but none of them has a
\* usable grid.
C21_FailuresReported ==
    result # <<>> =>
        /\ Matching = {} => result[1].status = "404 no sessions found for room+surface_type"
        /\ (Matching # {} /\ \A q \in Retrievals : ~HasUsableGrid(q)) => Failed

\* the positions of a retrieval whose session has a usable grid of the shape
\* of the first usable grid: the used sessions
UsedOf(q) ==
    LET withGrid == {i \in DOMAIN q : GridOf(q[i]) # <<>>}
        first == CHOOSE i \in withGrid : \A j \in withGrid : i <= j
    IN {i \in withGrid : Shape(GridOf(q[i])) = Shape(GridOf(q[first]))}

\* the number of used sessions of a retrieval in which cell (r, c) is marked:
\* count 0 for most_disregarded, count >= threshold for overwiped_hotspots
Frequency(q, r, c) ==
    Cardinality({i \in UsedOf(q) :
        IF args.fn = "most_disregarded" THEN GridOf(q[i])[r + 1][c + 1] = 0
        ELSE GridOf(q[i])[r + 1][c + 1] >= args.threshold})

\* the list of cells of the answer, as <<r, c, frequency>>
Listed ==
    IF args.fn = "most_disregarded"
    THEN [i \in 1..Len(result[1].top_disregarded) |->
             <<result[1].top_disregarded[i].r, result[1].top_disregarded[i].c,
               result[1].top_disregarded[i].miss_sessions>>]
    ELSE [i \in 1..Len(result[1].top_overwiped) |->
             <<result[1].top_overwiped[i].r, result[1].top_overwiped[i].c,
               result[1].top_overwiped[i].overwipe_sessions>>]

\* C22: in an answer of most_disregarded (overwiped_hotspots) the frequency of
\* a listed cell is the number of used sessions in which the cell has count 0
\* (count >= threshold); the list has at most k entries, no cell twice, is in
\* non-increasing order of frequency, and no cell left out has a higher
\* frequency than a listed one.
C22_Frequencies ==
    (result # <<>> /\ result[1].status = "200" /\ args.fn # "most_touched") =>
        \E q \in Retrievals :
            LET out == result[1]
                used == IF HasUsableGrid(q) THEN UsedOf(q) ELSE {}
                cells == IF used = {} THEN {} ELSE (0..(out.grid_h - 1)) \X (0..(out.grid_w - 1))
                listed == {<<Listed[a][1], Listed[a][2]>> : a \in 1..Len(Listed)}
            IN /\ out.sessions_used = Cardinality(used)
               /\ \A i \in used : Shape(GridOf(q[i])) = <<out.grid_h, out.grid_w>>
               /\ Len(Listed) <= args.k
               /\ listed \subseteq cells
               /\ \A a, b \in 1..Len(Listed) : listed # {} /\ a < b =>
                     /\ <<Listed[a][1], Listed[a][2]>> # <<Listed[b][1], Listed[b][2]>>
                     /\ Listed[a][3] >= Listed[b][3]
               /\ \A a \in 1..Len(Listed) :
                     /\ Listed[a][3] = Frequency(q, Listed[a][1], Listed[a][2])
                     /\ \A cell \in cells \ listed :
                           Frequency(q, cell[1], cell[2]) <= Listed[a][3]

\* most_disregarded over three used sessions: one cell missed in two of them
\* and listed first, the other missed in one
C22_Witness ==
    /\ result # <<>>
    /\ args.fn = "most_disregarded"
    /\ result[1].status = "200"
    /\ result[1].sessions_used = 3
    /\ Len(result[1].top_disregarded) = 2
    /\ result[1].top_disregarded[1].miss_sessions = 2
    /\ result[1].top_disregarded[2].miss_sessions = 1

\* C23: whenever a retrieved session has a usable grid, most_disregarded
\* answers with a result whose sessions_used is at least 1, with an empty
\* top_disregarded list if every cell was covered in every used session,
\* instead of a failure.
C23_NoMissIsAResult ==
    (result # <<>> /\ args.fn = "most_disregarded"
     /\ \A q \in Retrievals : HasUsableGrid(q)) =>
        /\ result[1].status = "200"
        /\ result[1].sessions_used >= 1

\* the boxes of a list, as a set
BoxSet(boxes) == {boxes[i] : i \in 1..Len(boxes)}

\* the detected boxes of at least 8% of the frame
LargeDetected == {b \in BoxSet(args.all_boxes) : 100 * BoxArea(b) >= 8 * args.h * args.w}

\* the bounding boxes of the contours of at least 8% of the frame and of
\* aspect ratio between 0.3 and 6
Qualifying ==
    {<<c.x, c.y, c.x + c.cw, c.y + c.ch>> :
        c \in {d \in BoxSet(args.contours) :
                  /\ 100 * d.area >= 8 * args.h * args.w
                  /\ 10 * d.cw > 3 * d.ch /\ d.cw < 6 * d.ch}}

Records ==
    {payload[c] : c \in {d \in Callers : pc[d] = "spawn"}}
        \cup {posts[i].payload : i \in 1..Len(posts)}

\* a record that the ingestion validation accepts as a new session and whose
\* fields are as the contract says
RecordValid(p) ==
    /\ IngestRejection(p, {}) = ""
    /\ p.grid_h = GridH /\ p.grid_w = GridW
    /\ Len(p.coverage_count_grid) = p.grid_h
    /\ \A r \in 1..p.grid_h :
          /\ Len(p.coverage_count_grid[r]) = p.grid_w
          /\ \A c \in 1..p.grid_w : p.coverage_count_grid[r][c] \in 0..10
    /\ Len(p.high_touch_mask) = p.grid_h
    /\ \A r \in 1..p.grid_h :
          /\ Len(p.high_touch_mask[r]) = p.grid_w
          /\ \A c \in 1..p.grid_w : p.high_touch_mask[r][c] \in {0, 1}
    /\ p.wipe_events = <<>>
    /\ p.session_id \in 1..Len(arrays)
    /\ p.end_time >= p.start_time

\* C25: every outbound record built by stop_session passes the ingestion
\* validation: its grid has grid_h rows of grid_w integers in [0, 10], its
\* mask the same shape with entries 0 or 1, grid_h and grid_w are those of the
\* surface profile, wipe_events is empty and end_time is not before
\* start_time; its session_id is the id the start_session of the session being
\* stopped assigned: a successful start assigns a fresh id, the id stays while
\* the session is recorded, and the stop copies it with the start time.
C25_RecordPassesValidation ==
    /\ [](\A p \in Records : RecordValid(p))
    /\ [][ /\ \A c \in Callers :
                (StartSessionCall(c) /\ ret' = "start_true") =>
                    /\ state'.session_id = Len(arrays')
                    /\ \A p \in Records : p.session_id # state'.session_id
           /\ (state.recording /\ state'.recording) => state'.session_id = state.session_id
           /\ \A c \in Callers :
                (StopFinalize(c) /\ pc'[c] = "spawn") =>
                    /\ state.session_id # None
                    /\ payload'[c].session_id = state.session_id
                    /\ payload'[c].start_time = state.start_time_utc
         ]_vars

\* the record of a second session, handed to its delivery thread: it ended
\* after it started and its grid has a cell that was wiped
C25_Witness ==
    \E i \in 1..Len(posts) :
        /\ posts[i].payload.session_id = 2
        /\ posts[i].payload.end_time > posts[i].payload.start_time
        /\ posts[i].payload.coverage_count_grid[1][1] >= 1

\* C26: in the key-driven trackers, after a recording has been stopped with
\* the key s the machine is startable again: the next s pressed with a
\* non-empty preview box set begins a new recording with a zero heatmap.
C26_StartableAfterStop ==
    [][ (/\ TrackerFrame
         /\ tracker'.key = "s"
         /\ tracker.finished /\ ~tracker.recording
         /\ tracker'.preview_boxes # <<>>)
           => (/\ tracker'.recording
               /\ tracker'.heat_map = Zeros(FrameH, FrameW)) ]_vars

\* C27: no session is lost.  A session whose start_session returned True
\* stays recording with its session_id, mask and heatmap until the first
\* locked block of a stop_session call finalizes it, which builds the one
\* record carrying its id; in particular the reset of an earlier session's
\* stop never clears a later session.
C27_NoSessionLost ==
    /\ [](\A p, q \in Records : p.session_id = q.session_id => p = q)
    /\ [][ state.recording =>
             \/ /\ state'.recording
                /\ state'.session_id = state.session_id
                /\ state'.table_mask = state.table_mask
                /\ state'.heat_map = state.heat_map
             \/ \E c \in Callers :
                  /\ StopFinalize(c)
                  /\ payload'[c].session_id = state.session_id
         ]_vars

\* the machine is idle: nothing is recorded or finished and no stop_session
\* call is between its two locked blocks
Idle == ~state.recording /\ ~state.finished /\ \A c \in Callers : pc[c] = "idle"

\* C28: whenever the machine is idle the shared state carries no session
\* data: heat_map and table_mask are None, table_boxes is empty, session_id
\* and both start times are None, coverage_percent is 0.0 and high_touch_done
\* is False; the frame loop writes no live coverage of an ended session into
\* the idle state.
C28_IdleStateIsClean == Idle => state = InitState

\* the grid _heatmap_to_grid gives for a session's heatmap as it is now
GridNow(id) == HeatmapToGrid(arrays[id], ChosenBox(<<CornerBox, RightBox>>), GridH, GridW)

\* C29: the record of a session is fixed when stop_session takes the lock.
\* Its grid is the discretization of the session's heatmap as it is at that
\* moment (the zero array of the session's start with the updates applied
\* since), and its id and times are those of the state; from then on no step
\* (frame update, reset, start of another session, delivery) changes a field
\* of the record, in the caller's hands or in the delivery thread's.
C29_RecordFrozenAtStop ==
    [][ /\ \A c \in Callers :
             (StopFinalize(c) /\ pc'[c] = "spawn") =>
                 /\ payload'[c].coverage_count_grid = GridNow(state.session_id)
                 /\ state.heat_map = state.session_id
                 /\ payload'[c].session_id = state.session_id
                 /\ payload'[c].start_time = state.start_time_utc
                 /\ payload'[c].end_time = now'
        /\ \A c \in Callers :
             pc[c] = "spawn" =>
                 \/ pc'[c] = "spawn" /\ payload'[c] = payload[c]
                 \/ /\ Len(posts') = Len(posts) + 1
                    /\ posts'[Len(posts')].payload = payload[c]
        /\ Len(posts') >= Len(posts)
        /\ \A i \in 1..Len(posts) : posts'[i].payload = posts[i].payload
      ]_vars

\* the record of session 1 has been delivered as built, after a frame update
\* applied to its heatmap past the stop changed what the heatmap discretizes
\* to, and after session 2 was started
C29_Witness ==
    \E i \in 1..Len(posts) :
        /\ posts[i].status = "answered"
        /\ posts[i].payload.session_id = 1
        /\ posts[i].payload.coverage_count_grid # GridNow(1)
        /\ state.session_id = 2
        /\ state.recording

\* the rows of a table stored for a session id
RowsOf(table, id) == {r \in table : r.session_id = id}

\* every stored id has one session row, one grid row and one metrics row, and
\* no grid or metrics row is stored without its session
StoredWhole ==
    \A id \in 1..MaxIds :
        /\ Cardinality(RowsOf(db.sessions, id)) <= 1
        /\ Cardinality(RowsOf(db.session_grids, id)) = Cardinality(RowsOf(db.sessions, id))
        /\ Cardinality(RowsOf(db.session_metrics, id)) = Cardinality(RowsOf(db.sessions, id))

\* C30: ingestion is all-or-nothing per session_id, also when two ingests of
\* the same id run concurrently: at most one session row is ever stored for
\* an id, every stored session has exactly one grid row and one metrics row;
\* a request that fails in scoring or on the commit stores nothing, the
\* summary push changes no row, and a stored row is never changed.
C30_AllOrNothing ==
    /\ []StoredWhole
    /\ [][ /\ \A w \in Ingesters :
                (ing[w].pc = "add" /\ ing'[w].pc = "idle") =>
                    (ret' \in {"500 ValueError", "500 IntegrityError"} /\ db' = db)
           /\ \A w \in Ingesters :
                (ing[w].pc = "add" /\ ing'[w].pc = "push") =>
                    LET id == ing[w].payload.session_id
                    IN /\ RowsOf(db.sessions, id) = {}
                       /\ Cardinality(RowsOf(db'.sessions, id)) = 1
           /\ \A w \in Ingesters : ing[w].pc = "push" /\ ing'[w].pc = "idle" => db' = db
           /\ db.sessions \subseteq db'.sessions
           /\ db.session_grids \subseteq db'.session_grids
           /\ db.session_metrics \subseteq db'.session_metrics
         ]_vars

\* two requests passed the duplicate test with the same id; one stored its
\* three rows and the other was turned away by the commit
C30_Witness ==
    /\ ret = "500 IntegrityError"
    /\ \E id \in 1..MaxIds :
          /\ Cardinality(RowsOf(db.sessions, id)) = 1
          /\ Cardinality(RowsOf(db.session_grids, id)) = 1
          /\ Cardinality(RowsOf(db.session_metrics, id)) = 1

====
